---- MODULE Spec2Model ----
(***************************************************************************)
(* A model of the NCRP data ingestion agent (src/mem1.py,                  *)
(* class NCRPDataIngestionAgent): the per-file pipeline of process_file,   *)
(* the deduplication registry and batch_process.                           *)
(*                                                                         *)
(* Python values are modelled as follows.                                  *)
(*   str    a TLA+ string; characters are read with SubSeq(s, i, i).       *)
(*   None   the marker string None, which no input string equals.          *)
(*   float  an integer number of hundredths (25000.0 is 2500000); the      *)
(*          inputs of the model carry at most two decimals.                *)
(*   dict   a function from the keys present to their values.              *)
(*   md5    an injective tagging of the hashed string (no collisions).     *)
(* The library calls that read a file (pandas, PyPDF2) and the regular     *)
(* expression searches over the extracted report text are inputs: a file   *)
(* is given by what they return.                                           *)
(***************************************************************************)
EXTENDS Integers, Sequences, FiniteSets, TLC

VARIABLES
    processed_complaints,  \* self.processed_complaints: the agent's registry
    calls,                 \* the process_file calls made so far: the file, the result
                           \* returned, the registry before and after the call
    batch,                 \* the batch_process call in progress, or its summary
    mob,                   \* _normalize_mobile applied to one input
    dat,                   \* _normalize_date applied to one input
    plat,                  \* _extract_platform applied to one input
    other,                 \* a second agent: its registry and its process_file calls
    threads,               \* process_file calls that share the agent and may overlap
    libc_pads_year,        \* whether the C library's strftime pads %Y to four digits
    tab                    \* one application of _map_dataframe_to_schema: row, done, schema

vars == <<processed_complaints, calls, batch, mob, dat, plat, other, threads, libc_pads_year,
         tab>>

(***************************************************************************)
(* Python values and strings                                               *)
(***************************************************************************)
None == "<None>"

\* bool(v) of a str or None
Truthy(v) == v # None /\ v # ""

\* str(v) of a str or None
PyStr(v) == IF v = None THEN "None" ELSE v

Char(s, i) == SubSeq(s, i, i)

Digits == "0123456789"

UpperLetters == "ABCDEFGHIJKLMNOPQRSTUVWXYZ"

LowerLetters == "abcdefghijklmnopqrstuvwxyz"

IndexIn(alphabet, c) ==
    IF \E i \in 1..Len(alphabet) : Char(alphabet, i) = c
    THEN CHOOSE i \in 1..Len(alphabet) : Char(alphabet, i) = c
    ELSE 0

DigitSet == {"0", "1", "2", "3", "4", "5", "6", "7", "8", "9"}

UpperSet == {Char(UpperLetters, i) : i \in 1..Len(UpperLetters)}

LowerSet == {Char(LowerLetters, i) : i \in 1..Len(LowerLetters)}

IsDigit(c) == c \in DigitSet

IsLetter(c) == c \in UpperSet \/ c \in LowerSet

IsSpace(c) == c \in {" ", "\t", "\n"}

\* \w of the re module
IsWordChar(c) == c \in DigitSet \/ c \in UpperSet \/ c \in LowerSet \/ c = "_"

LowerChar(c) == IF c \in UpperSet THEN Char(LowerLetters, IndexIn(UpperLetters, c)) ELSE c

UpperChar(c) == IF c \in LowerSet THEN Char(UpperLetters, IndexIn(LowerLetters, c)) ELSE c

Rest(s) == SubSeq(s, 2, Len(s))

\* str.lower()
RECURSIVE Lower(_)
Lower(s) == IF s = "" THEN "" ELSE LowerChar(Char(s, 1)) \o Lower(Rest(s))

\* str.lstrip(), str.rstrip(), str.strip()
RECURSIVE LStrip(_)
LStrip(s) == IF s # "" /\ IsSpace(Char(s, 1)) THEN LStrip(Rest(s)) ELSE s

RECURSIVE RStrip(_)
RStrip(s) ==
    IF s # "" /\ IsSpace(Char(s, Len(s))) THEN RStrip(SubSeq(s, 1, Len(s) - 1)) ELSE s

Strip(s) == RStrip(LStrip(s))

\* str.title(): a letter is upper case after a character that is not a letter,
\* lower case after a letter
RECURSIVE TitleFrom(_, _)
TitleFrom(s, afterLetter) ==
    IF s = "" THEN ""
    ELSE LET c == Char(s, 1)
         IN  (IF afterLetter THEN LowerChar(c) ELSE UpperChar(c))
                 \o TitleFrom(Rest(s), IsLetter(c))

Title(s) == TitleFrom(s, FALSE)

\* str.replace(old, "") for a one-character old
RECURSIVE RemoveChar(_, _)
RemoveChar(s, old) ==
    IF s = "" THEN ""
    ELSE (IF Char(s, 1) = old THEN "" ELSE Char(s, 1)) \o RemoveChar(Rest(s), old)

\* sub in s
Contains(s, sub) ==
    \E i \in 1..(Len(s) - Len(sub) + 1) : SubSeq(s, i, i + Len(sub) - 1) = sub

\* dict.get(key, default)
Get(d, key, default) == IF key \in DOMAIN d THEN d[key] ELSE default

(***************************************************************************)
(* float                                                                   *)
(***************************************************************************)
RECURSIVE StrToNat(_)
StrToNat(s) ==
    IF s = "" THEN 0
    ELSE 10 * StrToNat(SubSeq(s, 1, Len(s) - 1)) + (IndexIn(Digits, Char(s, Len(s))) - 1)

AllDigits(s) == \A i \in 1..Len(s) : IsDigit(Char(s, i))

\* float(s) of a decimal numeral: [ok |-> FALSE] stands for ValueError
FloatOfParts(neg, ip, fp) ==
    IF AllDigits(ip) /\ AllDigits(fp) /\ Len(ip) + Len(fp) > 0
    THEN [ok |-> TRUE,
          val |-> (IF neg THEN -1 ELSE 1)
                      * (100 * StrToNat(ip) + StrToNat(SubSeq(fp \o "00", 1, 2)))]
    ELSE [ok |-> FALSE, val |-> 0]

FloatUnsigned(neg, u, dot) ==
    IF dot = 0 THEN FloatOfParts(neg, u, "")
    ELSE FloatOfParts(neg, SubSeq(u, 1, dot - 1), SubSeq(u, dot + 1, Len(u)))

FloatStripped(t) ==
    IF t # "" /\ Char(t, 1) \in {"-", "+"}
    THEN FloatUnsigned(Char(t, 1) = "-", Rest(t), IndexIn(Rest(t), "."))
    ELSE FloatUnsigned(FALSE, t, IndexIn(t, "."))

Float(s) == FloatStripped(Strip(s))

\* str(x) of a float x: the shortest repr, "25000.0", "12.5", "0.05", "-3.0"
FloatStr(x) ==
    LET abs  == IF x < 0 THEN 0 - x ELSE x
        ip   == abs \div 100
        fp   == abs % 100
        frac == IF fp % 10 = 0 THEN ToString(fp \div 10)
                ELSE (IF fp < 10 THEN "0" ELSE "") \o ToString(fp)
    IN  (IF x < 0 THEN "-" ELSE "") \o ToString(ip) \o "." \o frac

(***************************************************************************)
(* The normalizers                                                         *)
(***************************************************************************)
\* re.sub(r'\D', '', s)
RECURSIVE re_sub_nondigit(_)
re_sub_nondigit(s) ==
    IF s = "" THEN ""
    ELSE (IF IsDigit(Char(s, 1)) THEN Char(s, 1) ELSE "") \o re_sub_nondigit(Rest(s))

MobileLen == 10

_normalize_mobile_untruncated(mobile) ==
    IF ~Truthy(mobile) THEN "" ELSE re_sub_nondigit(mobile)

_normalize_mobile_first(mobile) ==
    IF ~Truthy(mobile) THEN ""
    ELSE LET digits == re_sub_nondigit(mobile)
         IN  IF Len(digits) > MobileLen THEN SubSeq(digits, 1, MobileLen) ELSE digits

_normalize_mobile(mobile) ==
    IF ~Truthy(mobile) THEN ""
    ELSE LET digits == re_sub_nondigit(mobile)
         IN  IF Len(digits) > MobileLen
             THEN SubSeq(digits, Len(digits) - MobileLen + 1, Len(digits))
             ELSE digits

\* re.sub(r'\s+', ' ', s)
RECURSIVE re_sub_spaces(_)
re_sub_spaces(s) ==
    IF s = "" THEN ""
    ELSE IF IsSpace(Char(s, 1))
         THEN " " \o re_sub_spaces(LStrip(s))
         ELSE Char(s, 1) \o re_sub_spaces(Rest(s))

\* re.sub(r'[^\w\s\-.,@()]', '', s)
RECURSIVE re_sub_special(_)
re_sub_special(s) ==
    IF s = "" THEN ""
    ELSE LET c == Char(s, 1)
         IN  (IF IsWordChar(c) \/ IsSpace(c) \/ c \in {"-", ".", ",", "@", "(", ")"}
              THEN c ELSE "") \o re_sub_special(Rest(s))

_clean_text(text) ==
    IF ~Truthy(text) THEN ""
    ELSE Strip(re_sub_special(re_sub_spaces(Strip(text))))

\* The format check of _normalize_email only logs: both branches return email.
_normalize_email(email) ==
    IF ~Truthy(email) THEN "" ELSE Strip(Lower(email))

category_map ==
    ("online financial fraud" :> "Online Financial Fraud") @@
    ("upi fraud" :> "UPI Fraud") @@
    ("cyber fraud" :> "Cyber Fraud") @@
    ("banking fraud" :> "Banking Fraud") @@
    ("card fraud" :> "Card Fraud") @@
    ("debit card fraud" :> "Debit Card Fraud") @@
    ("credit card fraud" :> "Credit Card Fraud") @@
    ("phishing" :> "Phishing") @@
    ("identity theft" :> "Identity Theft") @@
    ("social media fraud" :> "Social Media Fraud")

_normalize_category(category) ==
    IF ~Truthy(category) THEN ""
    ELSE LET c == Strip(category) IN Get(category_map, Lower(c), Title(c))

platform_map ==
    ("phonepe" :> "PhonePe") @@
    ("phone pe" :> "PhonePe") @@
    ("google pay" :> "Google Pay") @@
    ("googlepay" :> "Google Pay") @@
    ("gpay" :> "Google Pay") @@
    ("paytm" :> "Paytm") @@
    ("amazon pay" :> "Amazon Pay") @@
    ("bhim" :> "BHIM") @@
    ("upi" :> "UPI") @@
    ("imps" :> "IMPS") @@
    ("neft" :> "NEFT") @@
    ("rtgs" :> "RTGS") @@
    ("net banking" :> "Net Banking") @@
    ("netbanking" :> "Net Banking")

_normalize_platform(platform) ==
    IF ~Truthy(platform) THEN "Unknown"
    ELSE LET p == Strip(platform) IN Get(platform_map, Lower(p), p)

status_map ==
    ("under process" :> "Under Process") @@
    ("under enquiry" :> "Under Enquiry") @@
    ("under investigation" :> "Under Investigation") @@
    ("complaint accepted" :> "Complaint Accepted") @@
    ("complaint registered" :> "Complaint Registered") @@
    ("fir registered" :> "FIR Registered") @@
    ("closed" :> "Closed") @@
    ("resolved" :> "Resolved") @@
    ("pending" :> "Pending")

_normalize_status(status) ==
    IF ~Truthy(status) THEN "Under Process"
    ELSE LET s == Strip(status) IN Get(status_map, Lower(s), s)

(***************************************************************************)
(* Dates.  The strings _normalize_date receives have the shape             *)
(*     n1 sep n2 sep n3 [" " hh ":" mm [":" ss] ["AM" | "PM"]]             *)
(* with sep one of "/" and "-" and every n a run of digits: the report     *)
(* regular expressions capture nothing else, and the tabular path maps no  *)
(* date.  dateutil_parse models dateutil's parser.parse(s, dayfirst=True)  *)
(* on that shape; [ok |-> FALSE] stands for the exception it raises.       *)
(***************************************************************************)
\* s.split(sep) for the one-character separators seps
RECURSIVE SplitAcc(_, _, _, _)
SplitAcc(s, seps, current, done) ==
    IF s = "" THEN Append(done, current)
    ELSE IF Char(s, 1) \in seps THEN SplitAcc(Rest(s), seps, "", Append(done, current))
    ELSE SplitAcc(Rest(s), seps, current \o Char(s, 1), done)

Split(s, seps) == SplitAcc(s, seps, "", <<>>)

RECURSIVE Concat(_)
Concat(strings) == IF strings = <<>> THEN "" ELSE Head(strings) \o Concat(Tail(strings))

IsNumeral(s) == s # "" /\ AllDigits(s)

AllNumerals(tokens) == \A i \in 1..Len(tokens) : IsNumeral(tokens[i])

\* "am", "pm" or "": the AM/PM mark a time ends with
AmPm(t) ==
    IF Len(t) >= 2 /\ Lower(SubSeq(t, Len(t) - 1, Len(t))) \in {"am", "pm"}
    THEN Lower(SubSeq(t, Len(t) - 1, Len(t))) ELSE ""

\* The time without its AM/PM mark
TimeBody(t) ==
    IF Len(t) >= 2 /\ Lower(SubSeq(t, Len(t) - 1, Len(t))) \in {"am", "pm"}
    THEN SubSeq(t, 1, Len(t) - 2) ELSE t

IsLeap(y) == (y % 4 = 0 /\ y % 100 # 0) \/ y % 400 = 0

DaysInMonth(y, m) ==
    IF m = 2 THEN (IF IsLeap(y) THEN 29 ELSE 28)
    ELSE IF m \in {4, 6, 9, 11} THEN 30 ELSE 31

ParseError ==
    [ok |-> FALSE, year |-> 0, month |-> 0, day |-> 0, hour |-> 0, minute |-> 0, second |-> 0]

\* dateutil's _ymd.resolve_ymd for three numeric members a, b, c with dayfirst=True
\* and yearfirst=False; year0 says the first member is a labelled year (a numeral
\* of more than two digits)
resolve_ymd(a, b, c, year0) ==
    IF a > 31 \/ year0
    THEN (IF c <= 12 THEN [y |-> a, d |-> b, m |-> c] ELSE [y |-> a, m |-> b, d |-> c])
    ELSE IF a > 12 \/ b <= 12
    THEN [d |-> a, m |-> b, y |-> c]
    ELSE [m |-> a, d |-> b, y |-> c]

\* The datetime of the resolved date and the time, or the ValueError of a field out
\* of range; with an AM/PM mark the hour must be at most 12
build_datetime(ymd, hour, minute, second, ampm) ==
    IF /\ ampm # "" => hour <= 12
       /\ ymd.y \in 1..9999 /\ ymd.m \in 1..12 /\ ymd.d \in 1..DaysInMonth(ymd.y, ymd.m)
       /\ (IF ampm = "pm" /\ hour < 12 THEN hour + 12 ELSE hour) <= 23
       /\ minute <= 59 /\ second <= 59
    THEN [ok |-> TRUE, year |-> ymd.y, month |-> ymd.m, day |-> ymd.d,
          hour |-> IF ampm = "pm" /\ hour < 12 THEN hour + 12
                   ELSE IF ampm = "am" /\ hour = 12 THEN 0 ELSE hour,
          minute |-> minute, second |-> second]
    ELSE ParseError

\* d: the numerals of the date; tm: those of the time (<<>>: no time)
parse_tokens(d, tm, ampm) ==
    IF /\ Len(d) = 3 /\ AllNumerals(d)
       /\ Cardinality({i \in 1..3 : Len(d[i]) > 2}) <= 1
       /\ Len(tm) \in {0, 2, 3} /\ AllNumerals(tm)
       /\ ampm # "" => Len(tm) > 0
    THEN build_datetime(
             resolve_ymd(StrToNat(d[1]), StrToNat(d[2]), StrToNat(d[3]), Len(d[1]) > 2),
             IF Len(tm) > 0 THEN StrToNat(tm[1]) ELSE 0,
             IF Len(tm) > 0 THEN StrToNat(tm[2]) ELSE 0,
             IF Len(tm) > 2 THEN StrToNat(tm[3]) ELSE 0,
             ampm)
    ELSE ParseError

DateSeparators == {"/", "-"}

TimeNumerals(t) == IF TimeBody(t) = "" THEN <<>> ELSE Split(TimeBody(t), {":"})

\* parts: the date and, after a space, the time
parse_parts(parts) ==
    parse_tokens(Split(Head(parts), DateSeparators),
                 TimeNumerals(Concat(Tail(parts))),
                 AmPm(Concat(Tail(parts))))

\* dateutil's parser.parse(s, dayfirst=True)
dateutil_parse(s) == parse_parts(Split(s, {" "}))

\* str.zfill(width)
RECURSIVE zfill(_, _)
zfill(s, width) == IF Len(s) >= width THEN s ELSE zfill("0" \o s, width)

LastUpTo(s, n) == IF Len(s) <= n THEN s ELSE SubSeq(s, Len(s) - n + 1, Len(s))

\* The manual pattern of _normalize_date: a search for
\* (\d{1,2})[/\-](\d{1,2})[/\-](\d{4}), then for (\d{1,2}):(\d{2})(?::(\d{2}))?;
\* without a match of the first the string is returned as it is
manual_tokens(d, tm, s) ==
    IF ~(Len(d) = 3 /\ AllNumerals(d) /\ Len(d[2]) <= 2 /\ Len(d[3]) >= 4) THEN s
    ELSE SubSeq(d[3], 1, 4) \o "-" \o zfill(d[2], 2) \o "-" \o zfill(LastUpTo(d[1], 2), 2)
         \o (IF Len(tm) >= 2 /\ AllNumerals(tm) /\ Len(tm[2]) >= 2
             THEN " " \o zfill(LastUpTo(tm[1], 2), 2) \o ":" \o SubSeq(tm[2], 1, 2) \o ":"
                  \o (IF Len(tm) >= 3 /\ Len(tm[3]) >= 2 THEN SubSeq(tm[3], 1, 2) ELSE "00")
             ELSE "")

manual_parts(parts, s) ==
    manual_tokens(Split(Head(parts), DateSeparators), TimeNumerals(Concat(Tail(parts))), s)

manual_date(s) == manual_parts(Split(s, {" "}), s)

Pad(n, width) == zfill(ToString(n), width)

\* strftime('%Y-%m-%d %H:%M:%S') when the time is not midnight, else '%Y-%m-%d'.
\* %Y of a year below 1000 depends on the C library: glibc prints it without
\* leading zeros ('999'), others pad it to four digits ('0999')
strftime(p) ==
    (IF libc_pads_year THEN Pad(p.year, 4) ELSE ToString(p.year))
    \o "-" \o Pad(p.month, 2) \o "-" \o Pad(p.day, 2)
    \o (IF p.hour # 0 \/ p.minute # 0 \/ p.second # 0
        THEN " " \o Pad(p.hour, 2) \o ":" \o Pad(p.minute, 2) \o ":" \o Pad(p.second, 2)
        ELSE "")

format_parsed(parsed_date, date_str) ==
    IF parsed_date.ok THEN strftime(parsed_date) ELSE manual_date(date_str)

_normalize_date(date_str) ==
    IF ~Truthy(date_str) THEN None ELSE format_parsed(dateutil_parse(date_str), date_str)

(***************************************************************************)
(* The canonical schema                                                    *)
(***************************************************************************)
_get_standard_schema ==
    [complaint_id |-> None,
     acknowledgement_number |-> None,
     date_time |-> None,
     incident_datetime |-> None,
     complaint_datetime |-> None,
     complainant_name |-> None,
     district |-> None,
     crime_type |-> None,
     platform |-> None,
     amount_lost |-> 0,
     status |-> "Under Process",
     complainant_details |->
         [name |-> None, mobile |-> None, email |-> None,
          address |-> [street |-> None, house_no |-> None, colony |-> None,
                       village_town |-> None, pincode |-> None,
                       police_station |-> None, district |-> None, state |-> None]],
     crime_details |->
         [complaint_type |-> None, category |-> None, sub_category |-> None,
          description |-> None],
     financial_details |-> [total_fraud_amount |-> 0, currency |-> "INR"],
     transactions |-> <<>>,
     actions_taken |-> <<>>,
     source_file |-> None,
     metadata |-> [processing_timestamp |-> None, data_quality_score |-> 0,
                   validation_status |-> None, is_duplicate |-> FALSE]]

(***************************************************************************)
(* The report path.  m holds, for every re.search of _parse_pdf_text, the  *)
(* group it captured (None: no match), the two status phrases found in the *)
(* text, the payment-app names found in it, and the lists that             *)
(* _extract_transactions_from_pdf and _extract_actions_from_pdf return.    *)
(***************************************************************************)
EmptyDict == [k \in {} |-> None]

\* data[key] = value, when the search matched
Entry(key, value) == IF value = None THEN EmptyDict ELSE key :> value

platforms == <<"PhonePe", "Google Pay", "GPay", "Paytm", "Amazon Pay", "BHIM">>

_extract_platform_last_listed(data, m) ==
    LET sub_category == Get(data, "sub_category", "")
        transactions == Get(data, "transactions", <<>>)
        actions      == Get(data, "actions_taken", <<>>)
        found        == {i \in 1..Len(platforms) : platforms[i] \in m.apps}
        withBank     == {i \in 1..Len(actions) :
                            Truthy(Get(actions[i], "beneficiary_bank", None))}
    IN  IF Contains(sub_category, "UPI")
        THEN (IF found # {}
              THEN platforms[CHOOSE i \in found : \A j \in found : i >= j]
              ELSE "UPI")
        ELSE IF Contains(sub_category, "Card") THEN "Card"
        ELSE IF Contains(sub_category, "Net Banking") \/ Contains(sub_category, "Banking")
        THEN "Net Banking"
        ELSE IF Len(transactions) > 0 /\ "bank" \in DOMAIN transactions[1]
        THEN transactions[1]["bank"]
        ELSE IF withBank # {}
        THEN actions[CHOOSE i \in withBank : \A j \in withBank : i <= j]["beneficiary_bank"]
        ELSE "Unknown"

_extract_platform(data, m) ==
    LET sub_category == Get(data, "sub_category", "")
        transactions == Get(data, "transactions", <<>>)
        actions      == Get(data, "actions_taken", <<>>)
        found        == {i \in 1..Len(platforms) : platforms[i] \in m.apps}
        withBank     == {i \in 1..Len(actions) :
                            Truthy(Get(actions[i], "beneficiary_bank", None))}
    IN  IF Contains(sub_category, "UPI")
        THEN (IF found # {}
              THEN platforms[CHOOSE i \in found : \A j \in found : i <= j]
              ELSE "UPI")
        ELSE IF Contains(sub_category, "Card") THEN "Card"
        ELSE IF Contains(sub_category, "Net Banking") \/ Contains(sub_category, "Banking")
        THEN "Net Banking"
        ELSE IF Len(transactions) > 0 /\ "bank" \in DOMAIN transactions[1]
        THEN transactions[1]["bank"]
        ELSE IF withBank # {}
        THEN actions[CHOOSE i \in withBank : \A j \in withBank : i <= j]["beneficiary_bank"]
        ELSE "Unknown"

StripOrNone(v) == IF v = None THEN None ELSE Strip(v)

_parse_pdf_text(m) ==
    LET complaint_id ==
            IF m.complaint # None THEN m.complaint ELSE m.ack
        status ==
            IF m.status # None THEN Strip(m.status)
            ELSE IF m.has_under_process THEN "Under Process"
            ELSE IF m.has_complaint_accepted THEN "Complaint Accepted"
            ELSE None
        fields ==
            Entry("acknowledgement_number", m.ack) @@
            Entry("complaint_id", complaint_id) @@
            Entry("incident_date", m.incident_date) @@
            Entry("incident_time",
                  IF m.incident_date = None THEN None ELSE RemoveChar(m.incident_time, " ")) @@
            Entry("complaint_date", m.complaint_date) @@
            Entry("name", IF m.name = None THEN None
                          ELSE Strip(RemoveChar(Strip(m.name), "*"))) @@
            Entry("mobile", m.mobile) @@
            Entry("email", m.email) @@
            Entry("street", StripOrNone(m.street)) @@
            Entry("house_no", StripOrNone(m.house_no)) @@
            Entry("colony", StripOrNone(m.colony)) @@
            Entry("village_town", StripOrNone(m.village_town)) @@
            Entry("police_station", StripOrNone(m.police_station)) @@
            Entry("district", StripOrNone(m.district)) @@
            Entry("state", StripOrNone(m.state)) @@
            Entry("pincode", m.pincode) @@
            Entry("complaint_type", StripOrNone(m.complaint_type)) @@
            Entry("category", StripOrNone(m.category)) @@
            Entry("sub_category", StripOrNone(m.sub_category)) @@
            Entry("description", StripOrNone(m.description)) @@
            Entry("total_fraud_amount",
                  IF m.amount = None THEN None ELSE RemoveChar(m.amount, ",")) @@
            Entry("status", status)
        data == fields @@ ("transactions" :> m.transactions) @@ ("actions_taken" :> m.actions)
    IN  data @@ ("platform" :> _extract_platform(data, m))

_map_pdf_to_schema(data, source_file) ==
    LET schema == _get_standard_schema
        g(key) == Get(data, key, None)
        incident_datetime ==
            IF Truthy(g("incident_date")) /\ Truthy(g("incident_time"))
            THEN data["incident_date"] \o " " \o data["incident_time"]
            ELSE IF Truthy(g("incident_date")) THEN data["incident_date"]
            ELSE schema.incident_datetime
        amount ==
            IF Truthy(g("total_fraud_amount"))
            THEN (IF Float(data["total_fraud_amount"]).ok
                  THEN Float(data["total_fraud_amount"]).val ELSE 0)
            ELSE schema.financial_details.total_fraud_amount
    IN  [schema EXCEPT
            !.source_file = source_file,
            !.complaint_id = g("complaint_id"),
            !.acknowledgement_number = g("acknowledgement_number"),
            !.incident_datetime = incident_datetime,
            !.complaint_datetime = g("complaint_date"),
            !.complainant_details =
                [name |-> g("name"), mobile |-> g("mobile"), email |-> g("email"),
                 address |-> [street |-> g("street"), house_no |-> g("house_no"),
                              colony |-> g("colony"), village_town |-> g("village_town"),
                              pincode |-> g("pincode"),
                              police_station |-> g("police_station"),
                              district |-> g("district"), state |-> g("state")]],
            !.crime_details =
                [complaint_type |-> g("complaint_type"), category |-> g("category"),
                 sub_category |-> g("sub_category"), description |-> g("description")],
            !.financial_details.total_fraud_amount = amount,
            !.status = Get(data, "status", "Under Process"),
            !.platform = Get(data, "platform", "Unknown"),
            !.transactions = Get(data, "transactions", <<>>),
            !.actions_taken = Get(data, "actions_taken", <<>>)]

(***************************************************************************)
(* The tabular path.  A row maps each header of the file to str(cell), or  *)
(* to NaN for a cell pandas reads as missing.                              *)
(***************************************************************************)
NaN == "<NaN>"

column_mappings ==
    [complaint_id |-> <<"complaint_id", "complaintid", "id", "complaint_number", "ack_no">>,
     acknowledgement_number |-> <<"acknowledgement_number", "ack_number", "ack_no">>,
     name |-> <<"name", "complainant_name", "complainant">>,
     mobile |-> <<"mobile", "phone", "contact", "mobile_number">>,
     email |-> <<"email", "email_id", "complainant_email">>,
     district |-> <<"district">>,
     state |-> <<"state">>,
     crime_type |-> <<"crime_type", "sub_category", "fraud_type">>,
     platform |-> <<"platform", "payment_platform", "bank">>,
     amount |-> <<"amount", "amount_lost", "total_amount", "fraud_amount">>,
     status |-> <<"status", "complaint_status">>]

\* The inner loop of _map_dataframe_to_schema: the first listed column that is
\* in the row and not NaN, and its stripped text
ColumnValue(row, possible_columns) ==
    LET hits == {i \in 1..Len(possible_columns) :
                    possible_columns[i] \in DOMAIN row /\ row[possible_columns[i]] # NaN}
    IN  IF hits = {} THEN [found |-> FALSE, value |-> None]
        ELSE [found |-> TRUE,
              value |-> Strip(row[possible_columns[CHOOSE i \in hits : \A j \in hits : i <= j]])]

_map_dataframe_to_schema_dated(row, source_file) ==
    LET schema == _get_standard_schema
        c(key, default) ==
            LET cv == ColumnValue(row, column_mappings[key])
            IN  IF cv.found THEN cv.value ELSE default
        amount == ColumnValue(row, column_mappings.amount)
        parsed == Float(RemoveChar(PyStr(amount.value), ","))
    IN  [schema EXCEPT
            !.source_file = source_file,
            !.complaint_id = c("complaint_id", @),
            !.acknowledgement_number = c("acknowledgement_number", @),
            !.complainant_details.name = c("name", @),
            !.complainant_details.mobile = c("mobile", @),
            !.complainant_details.email = c("email", @),
            !.complainant_details.address.district = c("district", @),
            !.complainant_details.address.state = c("state", @),
            !.crime_type = c("crime_type", @),
            !.platform = c("platform", @),
            !.financial_details.total_fraud_amount =
                IF amount.found /\ parsed.ok THEN parsed.val ELSE @,
            !.status = c("status", @),
            !.date_time = IF "date_time" \in DOMAIN row /\ row["date_time"] # NaN
                          THEN Strip(row["date_time"]) ELSE @]

_map_dataframe_to_schema(row, source_file) ==
    LET schema == _get_standard_schema
        c(key, default) ==
            LET cv == ColumnValue(row, column_mappings[key])
            IN  IF cv.found THEN cv.value ELSE default
        amount == ColumnValue(row, column_mappings.amount)
        parsed == Float(RemoveChar(PyStr(amount.value), ","))
    IN  [schema EXCEPT
            !.source_file = source_file,
            !.complaint_id = c("complaint_id", @),
            !.acknowledgement_number = c("acknowledgement_number", @),
            !.complainant_details.name = c("name", @),
            !.complainant_details.mobile = c("mobile", @),
            !.complainant_details.email = c("email", @),
            !.complainant_details.address.district = c("district", @),
            !.complainant_details.address.state = c("state", @),
            !.crime_type = c("crime_type", @),
            !.platform = c("platform", @),
            !.financial_details.total_fraud_amount =
                IF amount.found /\ parsed.ok THEN parsed.val ELSE @,
            !.status = c("status", @)]

\* raw_data is [kind |-> "DataFrame", rows |-> <<row, ...>>] or
\* [kind |-> "dict", data |-> the parsed report]
_extract_data(raw_data, source_file) ==
    IF raw_data.kind = "DataFrame"
    THEN (IF Len(raw_data.rows) > 0
          THEN _map_dataframe_to_schema(raw_data.rows[1], source_file)
          ELSE [_get_standard_schema EXCEPT !.source_file = source_file])
    ELSE _map_pdf_to_schema(raw_data.data, source_file)

(***************************************************************************)
(* Normalize, flatten, validate                                            *)
(***************************************************************************)
IfTruthy(v, normalized) == IF Truthy(v) THEN normalized ELSE v

_clean_and_normalize(data) ==
    LET cd   == data.complainant_details
        addr == cd.address
    IN  [data EXCEPT
            !.incident_datetime = IfTruthy(@, _normalize_date(@)),
            !.complaint_datetime = IfTruthy(@, _normalize_date(@)),
            !.complainant_details =
                [name    |-> IfTruthy(cd.name, _clean_text(cd.name)),
                 mobile  |-> IfTruthy(cd.mobile, _normalize_mobile(cd.mobile)),
                 email   |-> IfTruthy(cd.email, _normalize_email(cd.email)),
                 address |-> [key \in DOMAIN addr |-> IfTruthy(addr[key], _clean_text(addr[key]))]],
            !.crime_details.category = IfTruthy(@, _normalize_category(@)),
            !.crime_details.sub_category = IfTruthy(@, _normalize_category(@)),
            !.platform = IfTruthy(@, _normalize_platform(@)),
            !.status = IfTruthy(@, _normalize_status(@)),
            !.transactions =
                [i \in 1..Len(data.transactions) |->
                    LET transaction == data.transactions[i]
                    IN  IF Truthy(Get(transaction, "transaction_date", None))
                        THEN [transaction EXCEPT
                                 !["transaction_date"] = _normalize_date(@)]
                        ELSE transaction]]

_flatten_key_fields_filing_first(data) ==
    [data EXCEPT
        !.date_time =
            IF Truthy(data.complaint_datetime) THEN data.complaint_datetime
            ELSE IF Truthy(data.incident_datetime) THEN data.incident_datetime
            ELSE @,
        !.complainant_name =
            IF Truthy(data.complainant_details.name) THEN data.complainant_details.name ELSE @,
        !.district =
            IF Truthy(data.complainant_details.address.district)
            THEN data.complainant_details.address.district ELSE @,
        !.crime_type =
            IF Truthy(data.crime_details.sub_category) THEN data.crime_details.sub_category
            ELSE IF Truthy(data.crime_details.category) THEN data.crime_details.category
            ELSE @,
        !.amount_lost =
            IF data.financial_details.total_fraud_amount # 0
            THEN data.financial_details.total_fraud_amount ELSE @]

_flatten_key_fields(data) ==
    [data EXCEPT
        !.date_time =
            IF Truthy(data.incident_datetime) THEN data.incident_datetime
            ELSE IF Truthy(data.complaint_datetime) THEN data.complaint_datetime
            ELSE @,
        !.complainant_name =
            IF Truthy(data.complainant_details.name) THEN data.complainant_details.name ELSE @,
        !.district =
            IF Truthy(data.complainant_details.address.district)
            THEN data.complainant_details.address.district ELSE @,
        !.crime_type =
            IF Truthy(data.crime_details.sub_category) THEN data.crime_details.sub_category
            ELSE IF Truthy(data.crime_details.category) THEN data.crime_details.category
            ELSE @,
        !.amount_lost =
            IF data.financial_details.total_fraud_amount # 0
            THEN data.financial_details.total_fraud_amount ELSE @]

\* The values str(value).lower() is compared with
absent_values == {"none", "unknown", "0", "0.0"}

FilledStr_nonblank(value) == Truthy(value) /\ Strip(value) # ""

\* value and str(value).strip() and str(value).lower() not in [...], of a str or None
FilledStr(value) ==
    Truthy(value) /\ Strip(value) # "" /\ Lower(value) \notin absent_values

\* the same test of a float
FilledFloat(value) ==
    value # 0 /\ Strip(FloatStr(value)) # "" /\ Lower(FloatStr(value)) \notin absent_values

critical_fields_unweighted(data) ==
    <<[name |-> "complaint_id",     filled |-> FilledStr(data.complaint_id),     weight |-> 100],
      [name |-> "complainant_name", filled |-> FilledStr(data.complainant_name), weight |-> 100],
      [name |-> "mobile",  filled |-> FilledStr(data.complainant_details.mobile), weight |-> 100],
      [name |-> "district",         filled |-> FilledStr(data.district),         weight |-> 100],
      [name |-> "date_time",        filled |-> FilledStr(data.date_time),        weight |-> 100],
      [name |-> "crime_type",       filled |-> FilledStr(data.crime_type),       weight |-> 100],
      [name |-> "amount_lost",      filled |-> FilledFloat(data.amount_lost),    weight |-> 100],
      [name |-> "status",           filled |-> FilledStr(data.status),           weight |-> 100]>>

\* critical_fields: name, whether the value counts as filled, weight (hundredths)
critical_fields(data) ==
    <<[name |-> "complaint_id",     filled |-> FilledStr(data.complaint_id),     weight |-> 200],
      [name |-> "complainant_name", filled |-> FilledStr(data.complainant_name), weight |-> 200],
      [name |-> "mobile",  filled |-> FilledStr(data.complainant_details.mobile), weight |-> 150],
      [name |-> "district",         filled |-> FilledStr(data.district),         weight |-> 100],
      [name |-> "date_time",        filled |-> FilledStr(data.date_time),        weight |-> 150],
      [name |-> "crime_type",       filled |-> FilledStr(data.crime_type),       weight |-> 150],
      [name |-> "amount_lost",      filled |-> FilledFloat(data.amount_lost),    weight |-> 200],
      [name |-> "status",           filled |-> FilledStr(data.status),           weight |-> 100]>>

RECURSIVE SumWeights(_, _)
SumWeights(fields, onlyFilled) ==
    IF fields = <<>> THEN 0
    ELSE (IF onlyFilled => Head(fields).filled THEN Head(fields).weight ELSE 0)
             + SumWeights(Tail(fields), onlyFilled)

\* round(x, 2) of the float num / den, in hundredths
Round2(num, den) == (2 * 100 * num + den) \div (2 * den)

validation_warnings_negative(data) ==
    LET mobile == data.complainant_details.mobile
        email  == data.complainant_details.email
    IN  SelectSeq(
            <<IF Truthy(mobile) /\ Len(mobile) # MobileLen
              THEN "Mobile number is not 10 digits" ELSE "",
              IF Truthy(email) /\ ~Contains(email, "@") THEN "Invalid email format" ELSE "",
              IF data.amount_lost < 0 THEN "Amount lost is zero or negative" ELSE "">>,
            LAMBDA w : w # "")

validation_warnings(data) ==
    LET mobile == data.complainant_details.mobile
        email  == data.complainant_details.email
    IN  SelectSeq(
            <<IF Truthy(mobile) /\ Len(mobile) # MobileLen
              THEN "Mobile number is not 10 digits" ELSE "",
              IF Truthy(email) /\ ~Contains(email, "@") THEN "Invalid email format" ELSE "",
              IF data.amount_lost <= 0 THEN "Amount lost is zero or negative" ELSE "">>,
            LAMBDA w : w # "")

\* round(quality_score, 2) of quality_score = (filled_fields / total_fields) * 100,
\* in hundredths
data_quality_score(filled_fields, total_fields) ==
    IF total_fields > 0 THEN Round2(100 * filled_fields, total_fields) ELSE 0

validation_status_above(filled_fields, total_fields) ==
    IF total_fields > 0 /\ 100 * filled_fields > 60 * total_fields
    THEN "valid" ELSE "incomplete"

\* 'valid' if quality_score >= 60 else 'incomplete', of the unrounded score
validation_status(filled_fields, total_fields) ==
    IF total_fields > 0 /\ 100 * filled_fields >= 60 * total_fields
    THEN "valid" ELSE "incomplete"

\* data with the score, the status and, if there are any, the warnings in its metadata
with_validation(data, score, status, warnings) ==
    [data EXCEPT
        !.metadata =
            IF warnings # <<>>
            THEN ("validation_warnings" :> warnings)
                     @@ [@ EXCEPT !.data_quality_score = score, !.validation_status = status]
            ELSE [@ EXCEPT !.data_quality_score = score, !.validation_status = status]]

scored(data, filled_fields, total_fields) ==
    with_validation(data, data_quality_score(filled_fields, total_fields),
                    validation_status(filled_fields, total_fields),
                    validation_warnings(data))

weighed(data, fields) == scored(data, SumWeights(fields, TRUE), SumWeights(fields, FALSE))

_validate_data(data) == weighed(data, critical_fields(data))

(***************************************************************************)
(* The deduplication registry and the summary                              *)
(***************************************************************************)
\* hashlib.md5(s.encode()).hexdigest(), taken to be free of collisions
md5_hexdigest(s) == "md5:" \o s

hash_string(data) ==
    PyStr(data.complainant_name) \o "_" \o PyStr(data.complainant_details.mobile)
        \o "_" \o PyStr(data.date_time) \o "_" \o FloatStr(data.amount_lost)

_is_duplicate_by_id(data, registry) ==
    Truthy(data.complaint_id) /\ data.complaint_id \in registry

_is_duplicate(data, registry) ==
    \/ Truthy(data.complaint_id) /\ data.complaint_id \in registry
    \/ md5_hexdigest(hash_string(data)) \in registry

_register_complaint_id_only(data, registry) ==
    registry \cup (IF Truthy(data.complaint_id) THEN {data.complaint_id} ELSE {})

\* The registry after self._register_complaint(data)
_register_complaint(data, registry) ==
    registry \cup (IF Truthy(data.complaint_id) THEN {data.complaint_id} ELSE {})
             \cup {md5_hexdigest(hash_string(data))}

_generate_summary(data) ==
    [complaint_id |-> data.complaint_id,
     complainant_name |-> data.complainant_name,
     district |-> data.district,
     crime_type |-> data.crime_type,
     platform |-> data.platform,
     amount_lost |-> data.amount_lost,
     status |-> data.status,
     date_time |-> data.date_time,
     num_transactions |-> Len(data.transactions),
     num_actions_taken |-> Len(data.actions_taken),
     data_quality_score |-> data.metadata.data_quality_score,
     validation_status |-> data.metadata.validation_status,
     is_duplicate |-> data.metadata.is_duplicate,
     source_file |-> data.source_file]

(***************************************************************************)
(* Loading.  A file is                                                     *)
(*   [name, exists, decodable, raises, readable, rows, m]:                 *)
(* its name, whether the path exists, the encodings under which            *)
(* pd.read_csv decodes it, the exception (None: no exception) pd.read_csv  *)
(* raises once the bytes decode, whether pd.read_excel / PyPDF2 reads it,  *)
(* the rows of its table and the matches of its report text.               *)
(***************************************************************************)
LastIndexOf(s, c) ==
    IF \E i \in 1..Len(s) : Char(s, i) = c
    THEN CHOOSE i \in 1..Len(s) : Char(s, i) = c /\ \A j \in (i + 1)..Len(s) : Char(s, j) # c
    ELSE 0

\* Path(name).suffix
Suffix(name) ==
    LET dot == LastIndexOf(name, ".")
    IN  IF dot <= 1 \/ dot = Len(name) THEN "" ELSE SubSeq(name, dot, Len(name))

Raise(error_type, message) == [ok |-> FALSE, error_type |-> error_type, error |-> message]

Loaded(raw_data) == [ok |-> TRUE, raw_data |-> raw_data]

encodings == <<"utf-8", "latin-1", "cp1252", "iso-8859-1">>

_load_csv(file) ==
    LET fits == {i \in 1..Len(encodings) : encodings[i] \in file.decodable}
    IN  IF fits = {}
        THEN Raise("ValueError", "Failed to load CSV with any supported encoding")
        ELSE IF file.raises # None THEN Raise(file.raises, file.raises)
        ELSE Loaded([kind |-> "DataFrame", rows |-> file.rows])

_load_excel(file) ==
    IF file.readable THEN Loaded([kind |-> "DataFrame", rows |-> file.rows])
    ELSE Raise("ValueError", "Failed to load Excel file: " \o file.name)

_load_pdf_unchecked(file) ==
    Loaded([kind |-> "dict", data |-> _parse_pdf_text(file.m)])

_load_pdf(file) ==
    IF file.readable THEN Loaded([kind |-> "dict", data |-> _parse_pdf_text(file.m)])
    ELSE Raise("ValueError", "Failed to load PDF file: " \o file.name)

\* Step 1 of process_file
Load(file) ==
    LET file_extension == Lower(Suffix(file.name))
    IN  IF ~file.exists THEN Raise("FileNotFoundError", "File not found: " \o file.name)
        ELSE IF file_extension = ".csv" THEN _load_csv(file)
        ELSE IF file_extension \in {".xlsx", ".xls"} THEN _load_excel(file)
        ELSE IF file_extension = ".pdf" THEN _load_pdf(file)
        ELSE Raise("ValueError", "Unsupported file format: " \o file_extension)

\* datetime.now().isoformat(): the clock is not modelled
Now == "now"

\* Steps 2 to 5 of process_file
Validated(file, raw_data) ==
    _validate_data(_flatten_key_fields(_clean_and_normalize(_extract_data(raw_data, file.name))))

\* Step 7 of process_file and its return value
processed(file, data) ==
    [status |-> "success", data |-> data, summary |-> _generate_summary(data)]

deduplicated_inverted(file, registry, validated_data, duplicate) ==
    [result   |-> processed(file, [validated_data EXCEPT
                                      !.metadata.is_duplicate = duplicate,
                                      !.metadata.processing_timestamp = Now,
                                      !.source_file = file.name]),
     registry |-> IF duplicate THEN _register_complaint(validated_data, registry)
                  ELSE registry]

deduplicated_summary_early(file, registry, validated_data, duplicate) ==
    [result   |-> [status  |-> "success",
                   data    |-> [validated_data EXCEPT
                                   !.metadata.is_duplicate = duplicate,
                                   !.metadata.processing_timestamp = Now,
                                   !.source_file = file.name],
                   summary |-> _generate_summary(validated_data)],
     registry |-> IF duplicate THEN registry
                  ELSE _register_complaint(validated_data, registry)]

deduplicated_always_registered(file, registry, validated_data, duplicate) ==
    [result   |-> processed(file, [validated_data EXCEPT
                                      !.metadata.is_duplicate = duplicate,
                                      !.metadata.processing_timestamp = Now,
                                      !.source_file = file.name]),
     registry |-> _register_complaint(validated_data, registry)]

\* Step 6 of process_file: the flag, and the registration of a record not flagged
deduplicated(file, registry, validated_data, duplicate) ==
    [result   |-> processed(file, [validated_data EXCEPT
                                      !.metadata.is_duplicate = duplicate,
                                      !.metadata.processing_timestamp = Now,
                                      !.source_file = file.name]),
     registry |-> IF duplicate THEN registry
                  ELSE _register_complaint(validated_data, registry)]

checked_after_registration(file, registry, validated_data) ==
    deduplicated(file, registry, validated_data,
                 _is_duplicate(validated_data, _register_complaint(validated_data, registry)))

checked(file, registry, validated_data) ==
    deduplicated(file, registry, validated_data, _is_duplicate(validated_data, registry))

\* The except clause of process_file, or the steps after the load
after_load(file, registry, loaded) ==
    IF ~loaded.ok
    THEN [result   |-> [status |-> "error", error |-> loaded.error,
                        error_type |-> loaded.error_type],
          registry |-> registry]
    ELSE checked(file, registry, Validated(file, loaded.raw_data))

\* process_file(file_path) on an agent whose registry is registry: the result it
\* returns and the registry it leaves
process_file(file, registry) == after_load(file, registry, Load(file))

(***************************************************************************)
(* Input files                                                             *)
(***************************************************************************)
NoMatches ==
    [ack |-> None, complaint |-> None, incident_date |-> None, incident_time |-> None,
     complaint_date |-> None, name |-> None, mobile |-> None, email |-> None,
     street |-> None, house_no |-> None, colony |-> None, village_town |-> None,
     police_station |-> None, district |-> None, state |-> None, pincode |-> None,
     complaint_type |-> None, category |-> None, sub_category |-> None,
     description |-> None, amount |-> None, status |-> None,
     has_under_process |-> FALSE, has_complaint_accepted |-> FALSE,
     apps |-> {}, transactions |-> <<>>, actions |-> <<>>]

AllEncodings == {encodings[i] : i \in 1..Len(encodings)}

PdfFile(name, m) ==
    [name |-> name, exists |-> TRUE, decodable |-> {}, raises |-> None,
     readable |-> TRUE, rows |-> <<>>, m |-> m]

TableFile(name, rows) ==
    [name |-> name, exists |-> TRUE, decodable |-> AllEncodings, raises |-> None,
     readable |-> TRUE, rows |-> rows, m |-> NoMatches]

\* A header is absent from the row, or its cell holds the value
Absent == "<absent>"

Cell(header, value) == IF value = Absent THEN EmptyDict ELSE header :> value

\* The report of the end-to-end scenario: acknowledgement number, name, mobile,
\* amount and the phrase "Under Process"; no district, no crime type
ScenarioMatches ==
    [NoMatches EXCEPT !.ack = "1234567890", !.name = "RAHUL KUMAR",
                      !.mobile = "919876543210", !.amount = "25,000.00",
                      !.has_under_process = TRUE]

OtherContent ==
    [ScenarioMatches EXCEPT !.incident_date = "05/03/2024", !.incident_time = "10 : 30 PM",
                            !.amount = "1,200.50", !.sub_category = "UPI Fraud",
                            !.district = "Pune State", !.apps = {"GPay", "Paytm"}]

GoodRow ==
    Cell("complaint_id", "CMP-7") @@ Cell("name", " Asha   Rao ") @@
    Cell("mobile", "+91 98765-43210") @@ Cell("district", "Nagpur") @@
    Cell("crime_type", "Phishing") @@ Cell("amount", "1,500.50") @@
    Cell("status", "pending") @@ Cell("email", "Asha@Example.com")

PoorRow ==
    Cell("id", "CMP-8") @@ Cell("phone", "12345") @@ Cell("amount_lost", "-500") @@
    Cell("status", NaN) @@ Cell("complaint_status", "Closed")

Files ==
    {PdfFile("rahul.pdf", ScenarioMatches),
     PdfFile("rahul_refiled.pdf", [ScenarioMatches EXCEPT !.complaint = "5550001111"]),
     PdfFile("other.pdf", OtherContent),
     PdfFile("other_refiled.pdf", [OtherContent EXCEPT !.complaint = "5550001111"]),
     TableFile("asha.csv", <<GoodRow>>),
     TableFile("poor.xlsx", <<PoorRow, GoodRow>>),
     TableFile("empty.XLS", <<>>),
     [PdfFile("missing.pdf", ScenarioMatches) EXCEPT !.exists = FALSE],
     PdfFile("notes.txt", ScenarioMatches),
     [TableFile("binary.csv", <<GoodRow>>) EXCEPT !.decodable = {}],
     [TableFile("blank.csv", <<>>) EXCEPT !.raises = "EmptyDataError"],
     [TableFile("locked.xlsx", <<GoodRow>>) EXCEPT !.readable = FALSE],
     [PdfFile("scan.pdf", NoMatches) EXCEPT !.readable = FALSE]}

\* Reports and one-row tables over the values of the eight weighted fields: absent,
\* present, and present with a text that denotes absence
ReportFiles ==
    {PdfFile("report.pdf",
             [NoMatches EXCEPT !.ack = ack, !.name = name, !.mobile = mobile,
                               !.district = district, !.incident_date = incident[1],
                               !.incident_time = incident[2],
                               !.sub_category = sub_category, !.amount = amount,
                               !.status = status, !.has_under_process = TRUE]) :
        ack \in {None, "1234567890", "0"},
        name \in {None, "RAHUL KUMAR", "Unknown"},
        mobile \in {None, "919876543210", "12345"},
        district \in {None, "Pune", "UNKNOWN"},
        incident \in {<<None, None>>, <<"15/01/2024", "10:30">>},
        sub_category \in {None, "UPI Fraud"},
        amount \in {None, "25,000.00", "0"},
        status \in {None, "Closed", "Unknown"}}

TableFiles ==
    {TableFile("table.csv",
               <<Cell("complaint_id", complaint_id) @@ Cell("name", name)
                 @@ Cell("mobile", mobile) @@ Cell("district", district)
                 @@ Cell("crime_type", crime_type) @@ Cell("amount", amount)
                 @@ Cell("status", status)>>) :
        complaint_id \in {Absent, "CMP-7", "none"},
        name \in {Absent, " Asha   Rao "},
        mobile \in {Absent, "+91 98765-43210", "n/a", " ", "0"},
        district \in {Absent, "Nagpur", "Unknown"},
        crime_type \in {Absent, "Phishing"},
        amount \in {Absent, "1,500.50", "0.0", "-500"},
        status \in {Absent, "pending", "UNKNOWN"}}

RecordFiles == ReportFiles \cup TableFiles

\* Mobile inputs: runs of up to MaxMobileDigits digits with up to MaxSeps other
\* characters put between, before or after them
MaxMobileDigits == 12

MaxSeps == 2

DigitPool == "9198765432105"

SepChars == {"-", " ", "+"}

InsertAt(s, k, c) == SubSeq(s, 1, k) \o c \o SubSeq(s, k + 1, Len(s))

RECURSIVE WithSeps(_, _)
WithSeps(S, n) ==
    IF n = 0 THEN S
    ELSE S \cup WithSeps(UNION {{InsertAt(s, k, c) : k \in 0..Len(s), c \in SepChars} : s \in S},
                         n - 1)

MobileInputs == WithSeps({SubSeq(DigitPool, 1, n) : n \in 0..MaxMobileDigits}, MaxSeps)

(***************************************************************************)
(* The agent: process_file and batch_process                               *)
(***************************************************************************)
MaxCalls == 3

BatchIdle ==
    [pc |-> "idle", file_paths |-> <<>>, results |-> <<>>, saved |-> EmptyDict,
     summary |-> [total_files |-> 0, successful |-> 0, failed |-> 0, duplicates |-> 0,
                  results |-> <<>>]]

MobIdle == [in |-> "", done |-> FALSE, out |-> None]

DatIdle == [in |-> "", done |-> FALSE, out |-> None]

PlatIdle == [in |-> EmptyDict, done |-> FALSE, out |-> None]

OtherIdle == [constructed |-> FALSE, processed_complaints |-> {}, calls |-> <<>>]

TabIdle == [in |-> EmptyDict, done |-> FALSE, out |-> None]

ThreadsIdle == [serialized |-> TRUE, running |-> EmptyDict, returned |-> <<>>]

Init ==
    /\ processed_complaints = {}
    /\ calls = <<>>
    /\ batch = BatchIdle
    /\ mob = MobIdle
    /\ dat = DatIdle
    /\ plat = PlatIdle
    /\ other = OtherIdle
    /\ threads = ThreadsIdle
    /\ libc_pads_year \in BOOLEAN
    /\ tab = TabIdle

\* The agent after one call of process_file that gave outcome r
Called(file, r) ==
    /\ processed_complaints' = r.registry
    /\ calls' = Append(calls, [file |-> file, result |-> r.result,
                               before |-> processed_complaints, after |-> r.registry])

\* A caller other than batch_process calls process_file
ProcessFile(file) ==
    /\ batch.pc # "loop"
    /\ Len(calls) < MaxCalls
    /\ \E r \in {process_file(file, processed_complaints)} : Called(file, r)
    /\ UNCHANGED <<batch, mob, dat, plat, other, threads, libc_pads_year, tab>>

\* batch_process(file_paths) is entered: results = []
BatchStart(file_paths) ==
    /\ batch.pc = "idle"
    /\ Len(calls) + Len(file_paths) <= MaxCalls
    /\ batch' = [BatchIdle EXCEPT !.pc = "loop", !.file_paths = file_paths]
    /\ UNCHANGED <<processed_complaints, calls, mob, dat, plat, other, threads, libc_pads_year, tab>>

\* The name batch_process saves the document of a result under
output_file(result) == "output/complaint_" \o PyStr(result.data.complaint_id) \o ".json"

\* One iteration of the loop of batch_process: process the next file, append its
\* result, save the document of a success
BatchStep ==
    /\ batch.pc = "loop"
    /\ Len(batch.results) < Len(batch.file_paths)
    /\ \E file \in {batch.file_paths[Len(batch.results) + 1]} :
           \E r \in {process_file(file, processed_complaints)} :
               /\ Called(file, r)
               /\ batch' = [batch EXCEPT
                               !.results = Append(@, r.result),
                               !.saved = IF r.result.status = "success"
                                         THEN (output_file(r.result) :> r.result) @@ @
                                         ELSE @]
    /\ UNCHANGED <<mob, dat, plat, other, threads, libc_pads_year, tab>>

\* sum(1 for r in results if ...) of batch_process
Successes(results) == {i \in 1..Len(results) : results[i].status = "success"}

Failures(results) == {i \in 1..Len(results) : results[i].status = "error"}

Duplicates(results) ==
    {i \in 1..Len(results) : /\ results[i].status = "success"
                             /\ results[i].data.metadata.is_duplicate}

batch_summary_successes(file_paths, results) ==
    [total_files |-> Len(file_paths),
     successful  |-> Cardinality(Successes(results)),
     failed      |-> Cardinality(Failures(results)),
     duplicates  |-> Cardinality(Duplicates(results)),
     results     |-> [i \in 1..Cardinality(Successes(results)) |->
                         SelectSeq(results, LAMBDA r : r.status = "success")[i].summary]]

batch_summary(file_paths, results) ==
    [total_files |-> Len(file_paths),
     successful  |-> Cardinality(Successes(results)),
     failed      |-> Cardinality(Failures(results)),
     duplicates  |-> Cardinality(Duplicates(results)),
     results     |-> [i \in 1..Len(results) |->
                         IF results[i].status = "success" THEN results[i].summary
                         ELSE [error |-> results[i].error]]]

\* The loop of batch_process is over: build and save the summary, return it
BatchEnd ==
    /\ batch.pc = "loop"
    /\ Len(batch.results) = Len(batch.file_paths)
    /\ \E summary \in {batch_summary(batch.file_paths, batch.results)} :
           batch' = [batch EXCEPT
                        !.pc = "done",
                        !.summary = summary,
                        !.saved = ("output/batch_summary.json" :> summary) @@ @]
    /\ UNCHANGED <<processed_complaints, calls, mob, dat, plat, other, threads, libc_pads_year, tab>>

RECURSIVE SeqsUpTo(_, _)
SeqsUpTo(S, n) ==
    IF n = 0 THEN {<<>>}
    ELSE LET shorter == SeqsUpTo(S, n - 1)
         IN  shorter \cup {Append(s, x) : s \in shorter, x \in S}

Next ==
    \/ \E file \in Files : ProcessFile(file)
    \/ \E file_paths \in SeqsUpTo(Files, MaxCalls) : BatchStart(file_paths)
    \/ BatchStep
    \/ BatchEnd

Spec == Init /\ [][Next]_vars

(***************************************************************************)
(* Two agents in one process: the agent of Spec and a second one that is   *)
(* constructed at any moment and then called in any interleaving with the  *)
(* first, at most MaxCalls calls in all                                    *)
(***************************************************************************)
\* The registry a new agent would start with if it were the registry of the
\* agents that exist
__init___singleton(existing) == existing

\* self.processed_complaints of a new agent: set(), whatever the registry of
\* the agents that exist
__init__(existing) == {}

ConstructOther ==
    /\ ~other.constructed
    /\ other' = [OtherIdle EXCEPT !.constructed = TRUE,
                                  !.processed_complaints = __init__(processed_complaints)]
    /\ UNCHANGED <<processed_complaints, calls, batch, mob, dat, plat, threads,
                   libc_pads_year, tab>>

ProcessFileFirst(file) ==
    /\ Len(calls) + Len(other.calls) < MaxCalls
    /\ ProcessFile(file)

ProcessFileOther(file) ==
    /\ other.constructed
    /\ Len(calls) + Len(other.calls) < MaxCalls
    /\ \E r \in {process_file(file, other.processed_complaints)} :
           other' = [other EXCEPT
                        !.processed_complaints = r.registry,
                        !.calls = Append(@, [file |-> file, result |-> r.result,
                                             before |-> other.processed_complaints,
                                             after |-> r.registry])]
    /\ UNCHANGED <<processed_complaints, calls, batch, mob, dat, plat, threads,
                   libc_pads_year, tab>>

NextAgents ==
    \/ ConstructOther
    \/ \E file \in Files : ProcessFileFirst(file)
    \/ \E file \in Files : ProcessFileOther(file)

SpecAgents == Init /\ [][NextAgents]_vars

(***************************************************************************)
(* Two threads call process_file on one agent, once each.  Steps 1 to 5    *)
(* work on data of the call; step 6 reads the shared registry in           *)
(* _is_duplicate and writes it in _register_complaint, and a thread can be *)
(* preempted between the two.  threads.serialized tells whether the caller *)
(* lets only one call be in flight at a time.                              *)
(***************************************************************************)
ThreadIds == {1, 2}

ThreadFiles == {f \in Files : f.name \in {"rahul.pdf", "rahul_refiled.pdf", "empty.XLS",
                                          "missing.pdf"}}

ThreadIdle == [pc |-> "idle", file |-> None, validated_data |-> None, duplicate |-> FALSE]

InFlight == {t \in ThreadIds : threads.running[t].pc \in {"check", "register"}}

InitThreads ==
    /\ processed_complaints = {}
    /\ calls = <<>>
    /\ batch = BatchIdle
    /\ mob = MobIdle
    /\ dat = DatIdle
    /\ plat = PlatIdle
    /\ other = OtherIdle
    /\ threads \in {[serialized |-> s, running |-> [t \in ThreadIds |-> ThreadIdle],
                      returned |-> <<>>] : s \in BOOLEAN}
    /\ libc_pads_year \in BOOLEAN
    /\ tab = TabIdle

\* Thread t enters process_file(file) and runs steps 1 to 5, or the except clause
ThreadStart(t, file) ==
    /\ threads.running[t].pc = "idle"
    /\ threads.serialized => InFlight = {}
    /\ \E loaded \in {Load(file)} :
           IF loaded.ok
           THEN threads' = [threads EXCEPT
                               !.running[t] = [pc |-> "check", file |-> file,
                                               validated_data |-> Validated(file, loaded.raw_data),
                                               duplicate |-> FALSE]]
           ELSE threads' = [threads EXCEPT
                               !.running[t] = [ThreadIdle EXCEPT !.pc = "done", !.file = file],
                               !.returned = Append(@, [thread |-> t, file |-> file,
                                                       result |-> after_load(file, {}, loaded).result])]
    /\ UNCHANGED <<processed_complaints, calls, batch, mob, dat, plat, other, libc_pads_year, tab>>

\* Thread t evaluates the condition of step 6: self._is_duplicate(validated_data)
ThreadCheck(t) ==
    /\ threads.running[t].pc = "check"
    /\ threads' = [threads EXCEPT
                       !.running[t].pc = "register",
                       !.running[t].duplicate =
                           _is_duplicate(threads.running[t].validated_data, processed_complaints)]
    /\ UNCHANGED <<processed_complaints, calls, batch, mob, dat, plat, other, libc_pads_year, tab>>

\* Thread t runs the branch of step 6 it chose, step 7, and returns
ThreadRegister(t) ==
    /\ threads.running[t].pc = "register"
    /\ \E r \in {deduplicated(threads.running[t].file, processed_complaints,
                               threads.running[t].validated_data,
                               threads.running[t].duplicate)} :
           /\ processed_complaints' = r.registry
           /\ threads' = [threads EXCEPT
                              !.running[t].pc = "done",
                              !.returned = Append(@, [thread |-> t,
                                                      file |-> threads.running[t].file,
                                                      result |-> r.result])]
    /\ UNCHANGED <<calls, batch, mob, dat, plat, other, libc_pads_year, tab>>

NextThreads ==
    \/ \E t \in ThreadIds : \E file \in ThreadFiles : ThreadStart(t, file)
    \/ \E t \in ThreadIds : ThreadCheck(t)
    \/ \E t \in ThreadIds : ThreadRegister(t)

SpecThreads == InitThreads /\ [][NextThreads]_vars

(***************************************************************************)
(* One call of process_file on a new agent, for every table of             *)
(* ContactFiles: email, mobile and amount cells of every kind the          *)
(* validator tells apart                                                   *)
(***************************************************************************)
ContactFiles ==
    {TableFile("contact.csv",
               <<Cell("complaint_id", "CMP-9") @@ Cell("name", "Asha Rao")
                 @@ Cell("email", email) @@ Cell("mobile", mobile)
                 @@ Cell("amount", amount)>>) :
        email \in {Absent, NaN, "asha@example.com", " Asha@Example.COM ", "asha@example",
                   "asha.example.com", "@", "not an email"},
        mobile \in {Absent, "9876543210", "+91 98765-43210", "12345", "n/a"},
        amount \in {Absent, "1,500.50", "0", "-500", "free"}}

NextContact == \E file \in ContactFiles : Len(calls) = 0 /\ ProcessFile(file)

SpecContact == Init /\ [][NextContact]_vars

(***************************************************************************)
(* One call of process_file on a new agent, for every file of FlatFiles:   *)
(* reports with or without each nested value that _flatten_key_fields      *)
(* copies up, and tables, whose crime_type column is mapped to the top     *)
(* level directly                                                          *)
(***************************************************************************)
FlatFiles ==
    {PdfFile("flat.pdf",
             [NoMatches EXCEPT !.ack = "1234567890", !.name = name, !.district = district,
                               !.incident_date = incident[1], !.incident_time = incident[2],
                               !.complaint_date = complaint_date,
                               !.category = category, !.sub_category = sub_category,
                               !.amount = amount]) :
        name \in {None, "RAHUL KUMAR"},
        district \in {None, "Pune"},
        incident \in {<<None, None>>, <<"15/01/2024", "10:30">>},
        complaint_date \in {None, "16/01/2024"},
        category \in {None, "Online Financial Fraud"},
        sub_category \in {None, "UPI Fraud"},
        amount \in {None, "25,000.00", "0"}}
    \cup
    {TableFile("flat.csv",
               <<Cell("complaint_id", "CMP-7") @@ Cell("name", name)
                 @@ Cell("district", district) @@ Cell("crime_type", crime_type)
                 @@ Cell("amount", amount)>>) :
        name \in {Absent, "Asha Rao"},
        district \in {Absent, "Nagpur"},
        crime_type \in {Absent, " Phishing ", "upi fraud"},
        amount \in {Absent, "1,500.50", "-500"}}

NextFlat == \E file \in FlatFiles : Len(calls) = 0 /\ ProcessFile(file)

SpecFlat == Init /\ [][NextFlat]_vars

(***************************************************************************)
(* Up to MaxCalls calls of process_file on one agent, over FormatFiles:    *)
(* one complainant under several identifiers, the name and the mobile      *)
(* spelt in several ways, in tables (no date) and in reports (with the     *)
(* incident date), and one table of another complainant under CMP-1        *)
(***************************************************************************)
FormatTable(complaint_id, name, mobile) ==
    TableFile("formats.csv",
              <<Cell("complaint_id", complaint_id) @@ Cell("name", name)
                @@ Cell("mobile", mobile) @@ Cell("amount", "1,500.50")>>)

FormatReport(ack, mobile) ==
    PdfFile("formats.pdf",
            [NoMatches EXCEPT !.ack = ack, !.name = "Asha Rao", !.mobile = mobile,
                              !.incident_date = "15/01/2024", !.incident_time = "10:30",
                              !.amount = "1,500.50"])

FormatFiles ==
    {FormatTable(complaint_id, spelling[1], spelling[2]) :
        complaint_id \in {"CMP-1", "CMP-2"},
        spelling \in {<<"Asha Rao", "9876543210">>,
                      <<" Asha   Rao ", "919876543210">>,
                      <<"Asha Rao", "+91 98765-43210">>}}
    \cup {FormatTable("CMP-1", "Vikram Shah", "9123456780")}
    \cup {FormatReport("1110001111", "919876543210"), FormatReport("2220002222", "9876543210")}

NextFormats == \E file \in FormatFiles : ProcessFile(file)

SpecFormats == Init /\ [][NextFormats]_vars

(***************************************************************************)
(* One call of process_file on a new agent, for every table of DatedTables:*)
(* CSV and Excel files with or without each weighted column and with a     *)
(* date column under one of several headers                                *)
(***************************************************************************)
DateHeaders ==
    {"date_time", "incident_datetime", "complaint_datetime", "incident_date", "date"}

DatedTables ==
    {TableFile(name,
               <<Cell("complaint_id", complaint_id) @@ Cell("name", "Asha Rao")
                 @@ Cell("mobile", mobile) @@ Cell("district", district)
                 @@ Cell("crime_type", crime_type) @@ Cell("amount", amount)
                 @@ Cell("status", "pending") @@ date>>) :
        name \in {"dated.csv", "dated.xlsx", "dated.xls"},
        complaint_id \in {Absent, "CMP-7"},
        mobile \in {Absent, "9876543210"},
        district \in {Absent, "Nagpur"},
        crime_type \in {Absent, "Phishing"},
        amount \in {Absent, "1,500.50"},
        date \in {EmptyDict} \cup {Cell(header, "15/01/2024 10:30") : header \in DateHeaders}
                \cup {Cell("incident_date", "15/01/2024") @@ Cell("complaint_date", "16/01/2024")}}

NextTabular == \E file \in DatedTables : Len(calls) = 0 /\ ProcessFile(file)

SpecTabular == Init /\ [][NextTabular]_vars

(***************************************************************************)
(* One call of process_file on a new agent, for every file of RecordFiles  *)
(***************************************************************************)
NextRecord == \E file \in RecordFiles : Len(calls) = 0 /\ ProcessFile(file)

SpecRecord == Init /\ [][NextRecord]_vars

(***************************************************************************)
(* _normalize_mobile applied to every input of MobileInputs                *)
(***************************************************************************)
InitMobile ==
    /\ processed_complaints = {}
    /\ calls = <<>>
    /\ batch = BatchIdle
    /\ mob \in {[MobIdle EXCEPT !.in = mobile] : mobile \in MobileInputs}
    /\ dat = DatIdle
    /\ plat = PlatIdle
    /\ other = OtherIdle
    /\ threads = ThreadsIdle
    /\ libc_pads_year \in BOOLEAN
    /\ tab = TabIdle

NormalizeMobile ==
    /\ ~mob.done
    /\ mob' = [mob EXCEPT !.done = TRUE, !.out = _normalize_mobile(mob.in)]
    /\ UNCHANGED <<processed_complaints, calls, batch, dat, plat, other, threads, libc_pads_year, tab>>

SpecMobile == InitMobile /\ [][NormalizeMobile]_vars

(***************************************************************************)
(* One call of process_file on a new agent, for every report of            *)
(* DatedReports: what the patterns of _parse_pdf_text can match as         *)
(* incident date and time (\d{2}/\d{2}/\d{4}, then \d{2}:\d{2} with        *)
(* optional seconds and AM/PM) and as complaint date (\d{2}/\d{1,2}/\d{4}) *)
(***************************************************************************)
IncidentDates ==
    {"15/01/2024", "05/03/2024", "31/02/2024", "01/13/2024", "99/99/2024", "29/02/2023",
     "05/01/0999", "01/01/0000"}

IncidentTimes ==
    {"10:30", "10 : 30 PM", "00:00", "25:30", "10:30:15", "12:05am", "13:30 PM", "10:30:99"}

ComplaintDates == {"16/01/2024", "16/1/2024", "40/1/2024", "05/01/0999"}

DatedReports ==
    {PdfFile("dated.pdf",
             [ScenarioMatches EXCEPT !.incident_date = incident[1],
                                     !.incident_time = incident[2],
                                     !.complaint_date = complaint_date]) :
        incident \in {<<None, None>>} \cup (IncidentDates \X IncidentTimes),
        complaint_date \in {None} \cup ComplaintDates}

NextDated == \E file \in DatedReports : Len(calls) = 0 /\ ProcessFile(file)

SpecDated == Init /\ [][NextDated]_vars

(***************************************************************************)
(* _map_dataframe_to_schema applied to every row of AliasRows: two columns *)
(* named by two aliases of one target field, each header spelt as listed   *)
(* or capitalised, each cell missing (NaN), blank, or holding a value      *)
(***************************************************************************)
AliasTargets == {"complaint_id", "name", "status"}

HeaderSpellings(alias) == {alias, Title(alias)}

AliasCells(value) == {NaN, "   ", value}

AliasRows ==
    {(first :> c1) @@ (second :> c2) :
        <<first, second, c1, c2>> \in
            UNION {HeaderSpellings(column_mappings[key][i])
                       \X HeaderSpellings(column_mappings[key][j])
                       \X AliasCells(" Asha ") \X AliasCells("Rao") :
                   <<key, i, j>> \in
                       {x \in AliasTargets \X (1..5) \X (1..5) :
                           x[2] < x[3] /\ x[3] <= Len(column_mappings[x[1]])}}}

InitTable ==
    /\ processed_complaints = {}
    /\ calls = <<>>
    /\ batch = BatchIdle
    /\ mob = MobIdle
    /\ dat = DatIdle
    /\ plat = PlatIdle
    /\ other = OtherIdle
    /\ threads = ThreadsIdle
    /\ libc_pads_year \in BOOLEAN
    /\ tab \in {[TabIdle EXCEPT !.in = row] : row \in AliasRows}

MapRow ==
    /\ ~tab.done
    /\ tab' = [tab EXCEPT !.done = TRUE, !.out = _map_dataframe_to_schema(tab.in, "table.csv")]
    /\ UNCHANGED <<processed_complaints, calls, batch, mob, dat, plat, other, threads,
                   libc_pads_year>>

SpecTable == InitTable /\ [][MapRow]_vars

(***************************************************************************)
(* _extract_platform applied to every input of PlatformInputs: the matched *)
(* sub-category (or none), the payment-app names found in the text, and    *)
(* the lists _extract_transactions_from_pdf and _extract_actions_from_pdf  *)
(* can return (transactions all with or all without a bank; money          *)
(* transfers before holds before old transactions; a money transfer whose  *)
(* bank cell is blank is matched with an empty beneficiary_bank)           *)
(***************************************************************************)
BankTransaction(bank) ==
    [bank |-> bank, account_number |-> "123456", amount |-> 500000,
     transaction_date |-> "15/01/2024", status |-> "reported"]

SimpleTransaction ==
    [transaction_id |-> "4012345678", amount |-> 500000,
     transaction_date |-> "15/01/2024", status |-> "reported"]

MoneyTransfer(bank) ==
    [action_type |-> "Money Transfer", beneficiary_bank |-> bank,
     account_number |-> "654321", amount |-> 500000, status |-> "transferred"]

TransactionHold ==
    [action_type |-> "Transaction Hold", bank |-> "ICICI Bank", amount |-> 500000,
     status |-> "on_hold"]

OldTransaction ==
    [action_type |-> "Old Transaction", bank |-> "Canara Bank", status |-> "old_txn",
     remarks |-> "Please visit nearby branch"]

PlatformInputs ==
    {[data |-> Cell("sub_category", sub_category)
                   @@ ("transactions" :> transactions) @@ ("actions_taken" :> actions),
      m    |-> [NoMatches EXCEPT !.apps = apps]] :
        sub_category \in {Absent, "UPI - PhonePe", "UPI", "UPI Related Frauds",
                          "Debit Card Fraud", "Debit/Credit Card Fraud/Sim Swap Fraud",
                          "Internet Banking Related Fraud", "Net Banking",
                          "E-Wallet Related Fraud", "upi card banking"},
        apps \in {{}, {"PhonePe"}, {"GPay", "Paytm"}, {"BHIM", "Google Pay"}, {"Amazon Pay"}},
        transactions \in {<<>>, <<BankTransaction("State Bank of India")>>,
                          <<SimpleTransaction>>,
                          <<BankTransaction("HDFC Bank"), BankTransaction("Yes Bank")>>},
        actions \in {<<>>, <<MoneyTransfer("Axis Bank")>>, <<TransactionHold>>,
                     <<MoneyTransfer(""), MoneyTransfer("Axis Bank")>>,
                     <<MoneyTransfer(""), TransactionHold>>,
                     <<MoneyTransfer("Axis Bank"), MoneyTransfer("Yes Bank"), TransactionHold>>,
                     <<TransactionHold, OldTransaction>>}}

InitPlatform ==
    /\ processed_complaints = {}
    /\ calls = <<>>
    /\ batch = BatchIdle
    /\ mob = MobIdle
    /\ dat = DatIdle
    /\ plat \in {[PlatIdle EXCEPT !.in = input] : input \in PlatformInputs}
    /\ other = OtherIdle
    /\ threads = ThreadsIdle
    /\ libc_pads_year \in BOOLEAN
    /\ tab = TabIdle

ExtractPlatform ==
    /\ ~plat.done
    /\ plat' = [plat EXCEPT !.done = TRUE, !.out = _extract_platform(plat.in.data, plat.in.m)]
    /\ UNCHANGED <<processed_complaints, calls, batch, mob, dat, other, threads,
                   libc_pads_year, tab>>

SpecPlatform == InitPlatform /\ [][ExtractPlatform]_vars

(***************************************************************************)
(* _normalize_date applied to every string of DateInputs: strings in the   *)
(* two forms it returns, YYYY-MM-DD and YYYY-MM-DD HH:MM:SS                *)
(***************************************************************************)
DateInputs ==
    {year \o "-" \o Pad(month, 2) \o "-" \o Pad(day, 2) \o time :
        year \in {"2023", "2024"}, month \in 1..12, day \in {1, 5, 12, 13, 28, 31},
        time \in {"", " 10:30:00", " 00:00:05", " 23:59:59"}}

InitDate ==
    /\ processed_complaints = {}
    /\ calls = <<>>
    /\ batch = BatchIdle
    /\ mob = MobIdle
    /\ dat \in {[DatIdle EXCEPT !.in = date_str] : date_str \in DateInputs}
    /\ plat = PlatIdle
    /\ other = OtherIdle
    /\ threads = ThreadsIdle
    /\ libc_pads_year \in BOOLEAN
    /\ tab = TabIdle

NormalizeDate ==
    /\ ~dat.done
    /\ dat' = [dat EXCEPT !.done = TRUE, !.out = _normalize_date(dat.in)]
    /\ UNCHANGED <<processed_complaints, calls, batch, mob, plat, other, threads,
                   libc_pads_year, tab>>

SpecDate == InitDate /\ [][NormalizeDate]_vars

(***************************************************************************)
(* Properties.  They are stated over the calls made so far, the batch and  *)
(* the mobile normalization; a record is the data of a successful result.  *)
(***************************************************************************)
CallIds == 1..Len(calls)

Succeeded(i) == calls[i].result.status = "success"

Failed(i) == calls[i].result.status = "error"

Record(i) == calls[i].result.data

Flagged(i) == Record(i).metadata.is_duplicate

Score(i) == Record(i).metadata.data_quality_score

\* The keys a record goes by in the registry: its identifier and its fingerprint
Keys(i) == _register_complaint(Record(i), {})

SameContent(i, j) ==
    /\ Record(i).complainant_name = Record(j).complainant_name
    /\ Record(i).complainant_details.mobile = Record(j).complainant_details.mobile
    /\ Record(i).date_time = Record(j).date_time
    /\ Record(i).amount_lost = Record(j).amount_lost

\* Two successful calls, the second later, of records with the same content and
\* different identifiers, the second's identifier not in the registry at its call
RefiledPair(i, j) ==
    /\ i < j /\ Succeeded(i) /\ Succeeded(j)
    /\ SameContent(i, j)
    /\ Record(i).complaint_id # Record(j).complaint_id
    /\ Record(j).complaint_id \notin calls[j].before

\* C1: when the same file is submitted twice to the agent and the registry holds
\* none of the record's keys at the first submission, the first submission is not
\* flagged duplicate and the second is.
C1_SecondSubmissionFlagged ==
    \A i \in CallIds : \A j \in CallIds :
        (/\ i < j /\ calls[i].file = calls[j].file /\ Succeeded(i)
         /\ Keys(i) \cap calls[i].before = {})
        => Succeeded(j) /\ ~Flagged(i) /\ Flagged(j)

C1_Witness ==
    \E i \in CallIds : \E j \in CallIds :
        /\ i < j /\ calls[i].file = calls[j].file /\ Succeeded(i)
        /\ Keys(i) \cap calls[i].before = {} /\ calls[i].before # {}
        /\ ~Flagged(i) /\ Flagged(j)

\* C2, as claimed: of two records with the same name, mobile, date-time and amount
\* and different identifiers, submitted one after the other, the second is flagged
\* duplicate although its identifier was never seen.
C2_RefiledAlwaysFlagged ==
    \A i \in CallIds : \A j \in CallIds :
        RefiledPair(i, j) /\ j = i + 1 => Flagged(j)

\* C2, amended: the second of the two records is flagged duplicate whenever the
\* first was not itself flagged duplicate (a flagged record is not registered).
C2_RefiledFlaggedAfterRegistered ==
    \A i \in CallIds : \A j \in CallIds :
        RefiledPair(i, j) /\ ~Flagged(i) => Flagged(j)

C2_Witness ==
    \E i \in CallIds : \E j \in CallIds :
        /\ RefiledPair(i, j) /\ ~Flagged(i) /\ Flagged(j)
        /\ Truthy(Record(j).complaint_id)

\* C3: in every returned record the validation status is "valid" exactly when the
\* quality score is at least 60 (6000 hundredths), and "incomplete" otherwise.
C3_ValidIffScoreAtLeast60 ==
    \A i \in CallIds :
        Succeeded(i) =>
            /\ Record(i).metadata.validation_status \in {"valid", "incomplete"}
            /\ Record(i).metadata.validation_status = "valid" <=> Score(i) >= 6000

C3_Witness ==
    \E i \in CallIds :
        Succeeded(i) /\ Score(i) = 6000 /\ Record(i).metadata.validation_status = "valid"

\* The eight weighted fields as the claim lists them, in hundredths: a text is filled
\* unless it is null, empty, or "none", "unknown", "0" or "0.0" in any case; the
\* amount, a number, unless it is 0.0
StatedFilled(value) ==
    value # None /\ value # "" /\ Lower(value) \notin {"none", "unknown", "0", "0.0"}

StatedFilledWeight(data) ==
    (IF StatedFilled(data.complaint_id) THEN 200 ELSE 0)
    + (IF StatedFilled(data.complainant_name) THEN 200 ELSE 0)
    + (IF StatedFilled(data.complainant_details.mobile) THEN 150 ELSE 0)
    + (IF StatedFilled(data.district) THEN 100 ELSE 0)
    + (IF StatedFilled(data.date_time) THEN 150 ELSE 0)
    + (IF StatedFilled(data.crime_type) THEN 150 ELSE 0)
    + (IF data.amount_lost # 0 THEN 200 ELSE 0)
    + (IF StatedFilled(data.status) THEN 100 ELSE 0)

\* C4: the quality score is 100 x (weight of the filled fields) / 12.5, and lies
\* in [0, 100]; scores are in hundredths, so 1250 x score = 10000 x weight.
C4_ScoreIsWeightedShare ==
    \A i \in CallIds :
        Succeeded(i) =>
            /\ 1250 * Score(i) = 10000 * StatedFilledWeight(Record(i))
            /\ Score(i) \in 0..10000

C4_Witness ==
    \E i \in CallIds :
        /\ Succeeded(i)
        /\ Record(i).district # None /\ Lower(Record(i).district) = "unknown"
        /\ Record(i).complaint_id = "0"
        /\ Score(i) = 5200

\* The report of the end-to-end scenario was processed by call i
ScenarioCall(i) == Succeeded(i) /\ calls[i].file.m = ScenarioMatches

ScenarioFields(i) ==
    /\ Record(i).complaint_id = "1234567890"
    /\ Record(i).complainant_details.mobile = "9876543210"
    /\ Record(i).amount_lost = 2500000
    /\ Record(i).status = "Under Process"

\* C5, as claimed: the scenario's record has identifier "1234567890", mobile
\* "9876543210", amount 25000.00, status "Under Process", a quality score of about
\* 58.3 and validation status "incomplete".
C5_ScenarioIncomplete ==
    \A i \in CallIds :
        ScenarioCall(i) =>
            /\ ScenarioFields(i)
            /\ Score(i) \in 5825..5835
            /\ Record(i).metadata.validation_status = "incomplete"

\* C5, amended: the scenario's record has those four values, a quality score of
\* 68.0 (identifier, name, mobile, amount and status filled: weight 8.5 of 12.5)
\* and validation status "valid".
C5_ScenarioValid ==
    \A i \in CallIds :
        ScenarioCall(i) =>
            /\ ScenarioFields(i)
            /\ Record(i).complainant_name = "RAHUL KUMAR"
            /\ Record(i).district = None /\ Record(i).crime_type = None
            /\ Record(i).date_time = None
            /\ Score(i) = 6800
            /\ Record(i).metadata.validation_status = "valid"

C5_Witness == \E i \in CallIds : ScenarioCall(i) /\ Score(i) = 6800

SupportedSuffixes == {".csv", ".xlsx", ".xls", ".pdf"}

UnsupportedExtension(file) == file.exists /\ Lower(Suffix(file.name)) \notin SupportedSuffixes

\* C6, as claimed: a finished batch of 3 files, the second with an unsupported
\* extension and the other two processed, reports successful = 2 and failed = 1,
\* and its second results entry is an error entry with error_type
\* "UnsupportedFormat".
C6_BatchReportsUnsupportedFormat ==
    (/\ batch.pc = "done" /\ Len(batch.file_paths) = 3
     /\ UnsupportedExtension(batch.file_paths[2])
     /\ batch.results[1].status = "success" /\ batch.results[3].status = "success")
    => /\ batch.summary.successful = 2
       /\ batch.summary.failed = 1
       /\ "error" \in DOMAIN batch.summary.results[2]
       /\ "error_type" \in DOMAIN batch.summary.results[2]
       /\ batch.summary.results[2]["error_type"] = "UnsupportedFormat"

\* The calls of the batch in progress are the last calls made
BatchCall(k) == calls[Len(calls) - Len(batch.results) + k]

ErrorEntry(entry) == "error" \in DOMAIN entry

\* C7: batch_process takes the files one at a time in input order, goes on after a
\* failing file, and returns total_files = number of inputs, one results entry per
\* input in input order, and successful + failed = total_files.
C7_BatchSequentialAndComplete ==
    /\ batch.pc = "loop" =>
           /\ Len(batch.results) <= Len(batch.file_paths)
           /\ \A k \in 1..Len(batch.results) :
                  /\ BatchCall(k).file = batch.file_paths[k]
                  /\ BatchCall(k).result = batch.results[k]
    /\ batch.pc = "done" =>
           /\ Len(batch.results) = Len(batch.file_paths)
           /\ batch.summary.total_files = Len(batch.file_paths)
           /\ Len(batch.summary.results) = Len(batch.file_paths)
           /\ batch.summary.successful + batch.summary.failed = batch.summary.total_files
           /\ \A k \in 1..Len(batch.file_paths) :
                  IF batch.results[k].status = "error"
                  THEN ErrorEntry(batch.summary.results[k])
                  ELSE /\ ~ErrorEntry(batch.summary.results[k])
                       /\ batch.summary.results[k].source_file = batch.file_paths[k].name

C7_Witness ==
    /\ batch.pc = "done" /\ Len(batch.file_paths) = 3
    /\ batch.results[1].status = "error"
    /\ batch.results[2].status = "success"
    /\ batch.results[3].status = "error"
    /\ batch.summary.successful = 1 /\ batch.summary.failed = 2

\* The fatal conditions of a file: the path is missing, the extension is not
\* recognized, no encoding decodes the table, the report cannot be read
Fatal(file) ==
    \/ ~file.exists
    \/ UnsupportedExtension(file)
    \/ Lower(Suffix(file.name)) = ".csv" /\ file.decodable = {}
    \/ Lower(Suffix(file.name)) = ".pdf" /\ ~file.readable

\* C8: a call on a file with a fatal condition returns a result with status
\* "error", an error message and an error_type, and every call that returns an
\* error leaves the registry as it was.
C8_FatalIsStructuredError ==
    \A i \in CallIds :
        /\ Fatal(calls[i].file) =>
               /\ Failed(i)
               /\ DOMAIN calls[i].result = {"status", "error", "error_type"}
               /\ calls[i].result.error # "" /\ calls[i].result.error_type # ""
        /\ Failed(i) => calls[i].after = calls[i].before

C8_Witness ==
    \E i \in CallIds : \E j \in CallIds :
        /\ i # j /\ calls[i].file # calls[j].file
        /\ ~calls[i].file.exists /\ UnsupportedExtension(calls[j].file)
        /\ Failed(i) /\ Failed(j)
        /\ calls[i].before # {} /\ calls[i].after = calls[i].before

\* The digits of s, in order
RECURSIVE DigitSequence(_)
DigitSequence(s) ==
    IF s = "" THEN ""
    ELSE DigitSequence(SubSeq(s, 1, Len(s) - 1))
             \o (IF Char(s, Len(s)) \in DigitSet THEN Char(s, Len(s)) ELSE "")

\* The last n characters of s, or all of s if it has fewer
LastOf(s, n) == IF Len(s) <= n THEN s ELSE SubSeq(s, Len(s) - n + 1, Len(s))

\* C9: for an input with 10 or more digits, whatever else stands between them,
\* _normalize_mobile returns the last 10 digits of the input's digit sequence.
C9_LastTenDigits ==
    mob.done /\ Len(DigitSequence(mob.in)) >= 10
        => Len(mob.out) = 10 /\ mob.out = LastOf(DigitSequence(mob.in), 10)

C9_Witness ==
    /\ mob.done
    /\ Len(DigitSequence(mob.in)) = 12 /\ Len(mob.in) = 14
    /\ mob.out = "9876543210"

\* The value the mobile of call i's record was taken from: the report's match or
\* the cell of the first row's mobile column
SourceMobile(i) ==
    IF Lower(Suffix(calls[i].file.name)) = ".pdf" THEN calls[i].file.m.mobile
    ELSE IF calls[i].file.rows = <<>> THEN None
    ELSE ColumnValue(calls[i].file.rows[1], column_mappings.mobile).value

\* C10, as claimed: in every returned record the mobile is null or exactly the
\* last 10 digits of the source value; it has no other length.
C10_MobileTenDigitsOrNull ==
    \A i \in CallIds :
        Succeeded(i) =>
            \/ Record(i).complainant_details.mobile = None
            \/ /\ Len(Record(i).complainant_details.mobile) = 10
               /\ Record(i).complainant_details.mobile
                      = LastOf(DigitSequence(SourceMobile(i)), 10)

\* C10, amended: in every returned record the mobile is null or the digits of the
\* source value, cut to the last 10 when there are more; it is never longer than
\* 10 digits, and is shorter (even empty) when the source has fewer than 10.
C10_MobileAtMostTenDigits ==
    \A i \in CallIds :
        Succeeded(i) =>
            \/ Record(i).complainant_details.mobile = None /\ SourceMobile(i) = None
            \/ /\ SourceMobile(i) # None
               /\ Len(Record(i).complainant_details.mobile) <= 10
               /\ Record(i).complainant_details.mobile
                      = LastOf(DigitSequence(SourceMobile(i)), 10)

C10_Witness ==
    \E i \in CallIds :
        /\ Succeeded(i)
        /\ SourceMobile(i) = "12345"
        /\ Record(i).complainant_details.mobile = "12345"

IsReport(i) == Lower(Suffix(calls[i].file.name)) = ".pdf"

Warnings(i) ==
    IF "validation_warnings" \in DOMAIN Record(i).metadata
    THEN {Record(i).metadata["validation_warnings"][k] :
              k \in 1..Len(Record(i).metadata["validation_warnings"])}
    ELSE {}

\* C11, as claimed: in every returned record, from a table or a report, the amount
\* lost and the total fraud amount are not negative.
C11_AmountsNeverNegative ==
    \A i \in CallIds :
        Succeeded(i) =>
            /\ Record(i).amount_lost >= 0
            /\ Record(i).financial_details.total_fraud_amount >= 0

\* C11, amended: the two amounts of a record are equal; on the report path they
\* are not negative; a negative amount comes from a table cell and, like a zero
\* amount, is reported by the warning "Amount lost is zero or negative".
C11_NegativeAmountOnlyFromTable ==
    \A i \in CallIds :
        Succeeded(i) =>
            /\ Record(i).amount_lost = Record(i).financial_details.total_fraud_amount
            /\ IsReport(i) => Record(i).amount_lost >= 0
            /\ Record(i).amount_lost <= 0
                   <=> "Amount lost is zero or negative" \in Warnings(i)

C11_Witness ==
    \E i \in CallIds :
        /\ Succeeded(i) /\ ~IsReport(i)
        /\ Record(i).amount_lost = -50000
        /\ Record(i).financial_details.total_fraud_amount = -50000
        /\ "Amount lost is zero or negative" \in Warnings(i)

DigitsAt(s, positions) == \A k \in positions : Char(s, k) \in DigitSet

\* The form YYYY-MM-DD
DateOnlyShape(s) ==
    /\ Len(s) = 10
    /\ DigitsAt(s, {1, 2, 3, 4, 6, 7, 9, 10})
    /\ Char(s, 5) = "-" /\ Char(s, 8) = "-"

\* The form YYYY-MM-DD HH:MM:SS
DateTimeShape(s) ==
    /\ Len(s) = 19
    /\ DateOnlyShape(SubSeq(s, 1, 10))
    /\ Char(s, 11) = " "
    /\ DigitsAt(s, {12, 13, 15, 16, 18, 19})
    /\ Char(s, 14) = ":" /\ Char(s, 17) = ":"

\* C12, as claimed: _normalize_date returns a string that is already in the form
\* YYYY-MM-DD or YYYY-MM-DD HH:MM:SS unchanged, also when its day is 12 or less.
C12_NormalizeDateIdempotent ==
    dat.done /\ (DateOnlyShape(dat.in) \/ DateTimeShape(dat.in)) => dat.out = dat.in

DateFieldShape(value) == value = None \/ DateOnlyShape(value) \/ DateTimeShape(value)

\* C13, as claimed: in every returned record the incident date-time, the filing
\* date-time and the unified date-time are each null, or of the form YYYY-MM-DD,
\* or of the form YYYY-MM-DD HH:MM:SS.
C13_DateFieldsInTwoShapes ==
    \A i \in CallIds :
        Succeeded(i) =>
            /\ DateFieldShape(Record(i).incident_datetime)
            /\ DateFieldShape(Record(i).complaint_datetime)
            /\ DateFieldShape(Record(i).date_time)

\* The first name of the list names that is in the set found, or otherwise
RECURSIVE FirstListed(_, _, _)
FirstListed(names, found, otherwise) ==
    IF names = <<>> THEN otherwise
    ELSE IF Head(names) \in found THEN Head(names)
    ELSE FirstListed(Tail(names), found, otherwise)

StatedSubCategory(input) ==
    IF "sub_category" \in DOMAIN input.data THEN input.data["sub_category"] ELSE ""

\* The precedence (a) to (f) as the claim states it, (e) looking at the first
\* action only
StatedPlatform(input) ==
    IF Contains(StatedSubCategory(input), "UPI")
    THEN FirstListed(platforms, input.m.apps, "UPI")
    ELSE IF Contains(StatedSubCategory(input), "Card") THEN "Card"
    ELSE IF Contains(StatedSubCategory(input), "Banking") THEN "Net Banking"
    ELSE IF /\ input.data["transactions"] # <<>>
            /\ "bank" \in DOMAIN input.data["transactions"][1]
    THEN input.data["transactions"][1]["bank"]
    ELSE IF /\ input.data["actions_taken"] # <<>>
            /\ "beneficiary_bank" \in DOMAIN input.data["actions_taken"][1]
            /\ input.data["actions_taken"][1]["beneficiary_bank"] # ""
    THEN input.data["actions_taken"][1]["beneficiary_bank"]
    ELSE "Unknown"

\* The beneficiary bank of the first action of the list that names one
RECURSIVE FirstBeneficiary(_, _)
FirstBeneficiary(actions, otherwise) ==
    IF actions = <<>> THEN otherwise
    ELSE IF /\ "beneficiary_bank" \in DOMAIN Head(actions)
            /\ Head(actions)["beneficiary_bank"] # ""
    THEN Head(actions)["beneficiary_bank"]
    ELSE FirstBeneficiary(Tail(actions), otherwise)

\* The same precedence with (e) the first action that names a beneficiary bank
StatedPlatformAnyAction(input) ==
    IF Contains(StatedSubCategory(input), "UPI")
    THEN FirstListed(platforms, input.m.apps, "UPI")
    ELSE IF Contains(StatedSubCategory(input), "Card") THEN "Card"
    ELSE IF Contains(StatedSubCategory(input), "Banking") THEN "Net Banking"
    ELSE IF /\ input.data["transactions"] # <<>>
            /\ "bank" \in DOMAIN input.data["transactions"][1]
    THEN input.data["transactions"][1]["bank"]
    ELSE FirstBeneficiary(input.data["actions_taken"], "Unknown")

\* C14 as stated: _extract_platform follows the precedence (a) sub-category
\* mentions UPI: first listed app found in the text, else "UPI"; (b) "Card";
\* (c) "Net Banking"; (d) the first transaction's bank; (e) the first action's
\* beneficiary bank; (f) "Unknown".
C14_PlatformPrecedence ==
    plat.done => plat.out = StatedPlatform(plat.in)

\* C14 amended: the same precedence, where (e) is the beneficiary bank of the
\* first action that names one (an earlier money transfer with a blank bank
\* is passed over).  "UPI - PhonePe" without an app in the text gives "UPI",
\* "UPI" with PhonePe in the text gives "PhonePe", "Debit Card Fraud" gives "Card".
C14_PlatformPrecedenceFirstNamedBeneficiary ==
    plat.done =>
        /\ plat.out = StatedPlatformAnyAction(plat.in)
        /\ StatedSubCategory(plat.in) = "UPI - PhonePe" /\ plat.in.m.apps = {}
               => plat.out = "UPI"
        /\ StatedSubCategory(plat.in) = "UPI" /\ "PhonePe" \in plat.in.m.apps
               => plat.out = "PhonePe"
        /\ StatedSubCategory(plat.in) = "Debit Card Fraud" => plat.out = "Card"

C14_Witness ==
    /\ plat.done
    /\ StatedSubCategory(plat.in) = "E-Wallet Related Fraud"
    /\ plat.in.data["transactions"] = <<SimpleTransaction>>
    /\ plat.in.data["actions_taken"] = <<MoneyTransfer(""), MoneyTransfer("Axis Bank")>>
    /\ plat.out = "Axis Bank"

\* Every call in the sequence history started from the registry the call before
\* it left, the first from start, and last is what the final one left
OwnHistory(history, start, last) ==
    /\ \A i \in 1..Len(history) :
           history[i].before = IF i = 1 THEN start ELSE history[i - 1].after
    /\ last = IF history = <<>> THEN start ELSE history[Len(history)].after

\* C15: the registry belongs to one agent: the first record given to a second,
\* new agent is never flagged, whatever the first agent has processed, and each
\* agent's registry changes through its own calls only.
C15_RegistryPerAgent ==
    /\ other.calls # <<>> =>
           /\ other.calls[1].before = {}
           /\ other.calls[1].result.status = "success"
                  => ~other.calls[1].result.data.metadata.is_duplicate
    /\ OwnHistory(calls, {}, processed_complaints)
    /\ OwnHistory(other.calls, {}, other.processed_complaints)

C15_Witness ==
    /\ Len(calls) = 2
    /\ calls[1].file.name = "rahul.pdf" /\ Succeeded(1) /\ ~Flagged(1)
    /\ calls[2].file.name = "rahul.pdf" /\ Succeeded(2) /\ Flagged(2)
    /\ Len(other.calls) = 1
    /\ other.calls[1].file.name = "rahul.pdf"
    /\ other.calls[1].result.status = "success"
    /\ ~other.calls[1].result.data.metadata.is_duplicate
    /\ other.processed_complaints = processed_complaints

\* C16: after batch_process the output holds one complaint document per
\* successfully processed file and one batch summary: the document of every
\* successful file is there, none was overwritten by another file's.
C16_OneDocumentPerSuccess ==
    batch.pc = "done" =>
        /\ Cardinality(DOMAIN batch.saved) = Cardinality(Successes(batch.results)) + 1
        /\ \A k \in Successes(batch.results) :
               \E path \in DOMAIN batch.saved : batch.saved[path] = batch.results[k]

\* The successful calls before call j
Earlier(j) == {i \in CallIds : i < j /\ Succeeded(i)}

\* C17 as stated: for every key, the first record of the sequence that carries
\* the key is not flagged duplicate.
C17_FirstCarrierOfAKeyNotFlagged ==
    \A j \in CallIds :
        (/\ Succeeded(j)
         /\ \E key \in Keys(j) : \A i \in Earlier(j) : key \notin Keys(i))
        => ~Flagged(j)

\* C17 amended: a record none of whose keys (identifier, fingerprint) is carried
\* by an earlier record of the sequence is not flagged duplicate; a record that
\* is the first to carry one of its keys is still flagged when an earlier
\* record carries the other.
C17_RecordWithNewKeysNotFlagged ==
    \A j \in CallIds :
        (/\ Succeeded(j)
         /\ \A i \in Earlier(j) : Keys(i) \cap Keys(j) = {})
        => ~Flagged(j)

C17_Witness ==
    \E j \in CallIds :
        /\ Succeeded(j) /\ Earlier(j) # {} /\ calls[j].before # {}
        /\ \A i \in Earlier(j) : Keys(i) \cap Keys(j) = {}
        /\ Cardinality(Keys(j)) = 2
        /\ ~Flagged(j)

BothUnflagged ==
    /\ Len(threads.returned) = 2
    /\ threads.returned[1].file = threads.returned[2].file
    /\ threads.returned[1].result.status = "success"
    /\ threads.returned[2].result.status = "success"
    /\ ~threads.returned[1].result.data.metadata.is_duplicate
    /\ ~threads.returned[2].result.data.metadata.is_duplicate

\* C19: with the ingestions serialized, two ingestions of identical records are
\* never both returned with the duplicate flag false: the one that returns
\* second is flagged.  (Without serialization the state is reachable: C19_Witness.)
C19_SerializedNeverBothUnflagged ==
    threads.serialized =>
        /\ ~BothUnflagged
        /\ Cardinality(InFlight) <= 1
        /\ (/\ Len(threads.returned) = 2
            /\ threads.returned[1].file = threads.returned[2].file
            /\ threads.returned[1].result.status = "success")
           => threads.returned[2].result.data.metadata.is_duplicate

\* The two checks ran before either registration and both records came back
\* unflagged
C19_Witness ==
    /\ ~threads.serialized
    /\ BothUnflagged
    /\ threads.returned[1].thread # threads.returned[2].thread
    /\ Truthy(threads.returned[1].result.data.complaint_id)

Summary(i) == calls[i].result.summary

\* C20: the stages of process_file run in the order load, map, normalize,
\* flatten, validate, duplicate check and registration, timestamp, summary: a
\* returned record is validated, carries its flag, the timestamp and the name
\* of its file, the registry has changed exactly when the record was not
\* flagged, and the summary, made last, repeats the record's flag, file name,
\* score and validation status.
C20_SummaryMadeLast ==
    \A i \in CallIds :
        Succeeded(i) =>
            /\ Record(i).metadata.validation_status \in {"valid", "incomplete"}
            /\ Record(i).metadata.is_duplicate \in BOOLEAN
            /\ calls[i].after = IF Flagged(i) THEN calls[i].before
                                ELSE calls[i].before \cup Keys(i)
            /\ Record(i).metadata.processing_timestamp = Now
            /\ Record(i).source_file = calls[i].file.name
            /\ Summary(i).is_duplicate = Record(i).metadata.is_duplicate
            /\ Summary(i).source_file = Record(i).source_file
            /\ Summary(i).data_quality_score = Record(i).metadata.data_quality_score
            /\ Summary(i).validation_status = Record(i).metadata.validation_status

C20_Witness ==
    \E i \in CallIds :
        /\ Succeeded(i) /\ Flagged(i)
        /\ Summary(i).is_duplicate
        /\ Summary(i).source_file = "rahul_refiled.pdf"
        /\ Record(i).metadata.processing_timestamp = Now

\* The aliases of a target field, in the order the mapping lists them
StatedAliases(key) ==
    CASE key = "complaint_id" -> <<"complaint_id", "complaintid", "id", "complaint_number",
                                   "ack_no">>
      [] key = "name"         -> <<"name", "complainant_name", "complainant">>
      [] key = "status"       -> <<"status", "complaint_status">>

\* The headers of the row that spell the alias in any case and whose cell is
\* neither missing nor blank
NonEmptyColumns(row, alias) ==
    {h \in DOMAIN row : Lower(h) = alias /\ row[h] # NaN /\ Strip(row[h]) # ""}

\* The value of the first alias with such a column, or otherwise
RECURSIVE StatedColumnValue(_, _, _)
StatedColumnValue(row, aliases, otherwise) ==
    IF aliases = <<>> THEN otherwise
    ELSE IF NonEmptyColumns(row, Head(aliases)) # {}
    THEN Strip(row[CHOOSE h \in NonEmptyColumns(row, Head(aliases)) : TRUE])
    ELSE StatedColumnValue(row, Tail(aliases), otherwise)

\* C21: on the tabular path the aliases of a target field are tried in listed
\* order, matched against the headers whatever their case, and the value is
\* that of the first alias whose column is present and not empty; missing,
\* empty and blank cells are passed over for later aliases.
C21_FirstNonEmptyAliasAnyCase ==
    tab.done =>
        /\ tab.out.complaint_id = StatedColumnValue(tab.in, StatedAliases("complaint_id"), None)
        /\ tab.out.complainant_details.name = StatedColumnValue(tab.in, StatedAliases("name"), None)
        /\ tab.out.status = StatedColumnValue(tab.in, StatedAliases("status"), "Under Process")

\* The email cell of the table of call i
SourceEmail(i) ==
    IF "email" \in DOMAIN calls[i].file.rows[1] THEN calls[i].file.rows[1]["email"] ELSE None

\* The emails among the inputs that do not have the shape local@domain.tld
InvalidEmails == {"asha@example", "asha.example.com", "@", "not an email"}

\* C22: an email of invalid shape does not turn the result into an error: the
\* value is kept, the result is a success, and the record's metadata warning
\* list holds a warning for it.
C22_InvalidEmailKeptAndWarned ==
    \A i \in CallIds :
        SourceEmail(i) \in InvalidEmails =>
            /\ Succeeded(i)
            /\ Record(i).complainant_details.email = SourceEmail(i)
            /\ "Invalid email format" \in Warnings(i)

\* The warnings the validator is stated to give for a record
StatedWarnings(data) ==
    (IF /\ data.complainant_details.mobile \notin {None, ""}
        /\ ~(/\ Len(data.complainant_details.mobile) = 10
             /\ \A k \in 1..10 : SubSeq(data.complainant_details.mobile, k, k)
                    \in {"0", "1", "2", "3", "4", "5", "6", "7", "8", "9"})
     THEN {"Mobile number is not 10 digits"} ELSE {})
    \cup (IF /\ data.complainant_details.email \notin {None, ""}
             /\ \A k \in 1..Len(data.complainant_details.email) :
                    SubSeq(data.complainant_details.email, k, k) # "@"
          THEN {"Invalid email format"} ELSE {})
    \cup (IF data.amount_lost <= 0 THEN {"Amount lost is zero or negative"} ELSE {})

\* C23: the validator's warnings are exactly: mobile present and not 10 digits,
\* email present without "@", amount lost <= 0; the metadata warning list is
\* there exactly when one of them applies, holds each once, and none changes
\* the result's status or the quality score.
C23_StructuralWarningsExact ==
    \A i \in CallIds :
        Succeeded(i) =>
            /\ Warnings(i) = StatedWarnings(Record(i))
            /\ "validation_warnings" \in DOMAIN Record(i).metadata
                   <=> StatedWarnings(Record(i)) # {}
            /\ "validation_warnings" \in DOMAIN Record(i).metadata
                   => Len(Record(i).metadata["validation_warnings"])
                          = Cardinality(StatedWarnings(Record(i)))
            /\ calls[i].result.status = "success"
            /\ 1250 * Score(i) = 10000 * StatedFilledWeight(Record(i))
            /\ Record(i).metadata.validation_status
                   = IF Score(i) >= 6000 THEN "valid" ELSE "incomplete"

C23_Witness ==
    \E i \in CallIds :
        /\ Succeeded(i)
        /\ Record(i).complainant_details.mobile = "12345"
        /\ Record(i).complainant_details.email = "asha.example.com"
        /\ Record(i).amount_lost < 0
        /\ Len(Record(i).metadata["validation_warnings"]) = 3
        /\ Score(i) = 6800
        /\ Record(i).metadata.validation_status = "valid"

NonEmpty(value) == value # None /\ value # ""

\* The top-level crime type before flattening: the crime_type column of a table,
\* nothing in a report
CrimeTypeColumn(i) ==
    IF IsReport(i) \/ "crime_type" \notin DOMAIN calls[i].file.rows[1] THEN None
    ELSE Strip(calls[i].file.rows[1]["crime_type"])

\* C24: in a returned record the unified date-time is the incident date-time
\* when there is one, else the filing date-time, else null; the crime type is
\* the sub-category when there is one, else the category, else what it was;
\* name, district and amount are the nested values when these are not empty,
\* and otherwise stay as they were (null, null, 0).
C24_FlatteningPrecedence ==
    \A i \in CallIds :
        Succeeded(i) =>
            /\ Record(i).date_time =
                   IF NonEmpty(Record(i).incident_datetime) THEN Record(i).incident_datetime
                   ELSE IF NonEmpty(Record(i).complaint_datetime)
                   THEN Record(i).complaint_datetime
                   ELSE None
            /\ Record(i).crime_type =
                   IF NonEmpty(Record(i).crime_details.sub_category)
                   THEN Record(i).crime_details.sub_category
                   ELSE IF NonEmpty(Record(i).crime_details.category)
                   THEN Record(i).crime_details.category
                   ELSE CrimeTypeColumn(i)
            /\ Record(i).complainant_name =
                   IF NonEmpty(Record(i).complainant_details.name)
                   THEN Record(i).complainant_details.name ELSE None
            /\ Record(i).district =
                   IF NonEmpty(Record(i).complainant_details.address.district)
                   THEN Record(i).complainant_details.address.district ELSE None
            /\ Record(i).amount_lost = Record(i).financial_details.total_fraud_amount

C24_Witness ==
    \E i \in CallIds :
        /\ Succeeded(i)
        /\ Record(i).incident_datetime = "2024-01-15 10:30:00"
        /\ Record(i).complaint_datetime = "2024-01-16"
        /\ Record(i).date_time = "2024-01-15 10:30:00"
        /\ Record(i).crime_details.category = "Online Financial Fraud"
        /\ Record(i).crime_type = "UPI Fraud"
        /\ Record(i).complainant_name = None
        /\ Record(i).amount_lost = 2500000

\* The successful calls before call j whose record was not flagged
EarlierUnflagged(j) == {i \in Earlier(j) : ~Flagged(i)}

\* C25: a record flagged duplicate leaves the registry as it was; so only the
\* keys of unflagged records count: a record that shares no key with an
\* earlier unflagged record is not flagged, even when an earlier flagged
\* record had its identifier.
C25_FlaggedRecordNotRegistered ==
    \A j \in CallIds :
        Succeeded(j) =>
            /\ Flagged(j) => calls[j].after = calls[j].before
            /\ (\A i \in EarlierUnflagged(j) : Keys(i) \cap Keys(j) = {}) => ~Flagged(j)

C25_Witness ==
    \E i \in CallIds : \E j \in CallIds :
        /\ i < j /\ Succeeded(i) /\ Succeeded(j)
        /\ Flagged(i) /\ Record(i).complaint_id \notin calls[i].before
        /\ Truthy(Record(i).complaint_id)
        /\ Record(j).complaint_id = Record(i).complaint_id
        /\ ~SameContent(i, j)
        /\ ~Flagged(j)

\* The successful calls whose record came back with the duplicate flag false
Unflagged == {i \in CallIds : Succeeded(i) /\ ~Flagged(i)}

HasId(i) == Record(i).complaint_id # None /\ Record(i).complaint_id # ""

Fingerprint(i) == hash_string(Record(i))

SourceName(i) ==
    IF IsReport(i) THEN calls[i].file.m.name
    ELSE IF calls[i].file.rows = <<>> \/ "name" \notin DOMAIN calls[i].file.rows[1] THEN None
    ELSE calls[i].file.rows[1]["name"]

\* Spellings of one name that differ in whitespace only, and of one mobile
\* that differ in the country-code prefix and in separators only
NameSpellings == {"Asha Rao", " Asha   Rao "}

MobileSpellings == {"9876543210", "919876543210", "+91 98765-43210"}

\* Calls i and j, j later, of records with different identifiers whose source
\* name and mobile are spellings of the same and whose date-time and amount
\* are equal
FormattingVariants(i, j) ==
    /\ i < j /\ Succeeded(i) /\ Succeeded(j)
    /\ Record(i).complaint_id # Record(j).complaint_id
    /\ SourceName(i) \in NameSpellings /\ SourceName(j) \in NameSpellings
    /\ SourceMobile(i) \in MobileSpellings /\ SourceMobile(j) \in MobileSpellings
    /\ Record(i).date_time = Record(j).date_time
    /\ Record(i).amount_lost = Record(j).amount_lost

\* C27 as stated: two such records have the same fingerprint and the second is
\* flagged duplicate.
C27_FormattingVariantFlagged ==
    \A i \in CallIds : \A j \in CallIds :
        FormattingVariants(i, j) => Fingerprint(i) = Fingerprint(j) /\ Flagged(j)

\* C27 amended: two such records have the same fingerprint, and the second is
\* flagged duplicate whenever the first was not itself flagged (a flagged
\* record is not registered).
C27_FormattingVariantSameFingerprint ==
    \A i \in CallIds : \A j \in CallIds :
        FormattingVariants(i, j) =>
            /\ Fingerprint(i) = Fingerprint(j)
            /\ ~Flagged(i) => Flagged(j)

C27_Witness ==
    \E i \in CallIds : \E j \in CallIds :
        /\ FormattingVariants(i, j)
        /\ SourceName(i) # SourceName(j) /\ SourceMobile(i) # SourceMobile(j)
        /\ ~Flagged(i) /\ Flagged(j)
        /\ Record(j).complaint_id \notin calls[j].before

\* C28: the record of a table (CSV or Excel) has no date: incident, filing and
\* unified date-time are null whatever columns the table has, and its quality
\* score is at most 88 (8800 hundredths).
C28_TabularRecordsHaveNoDate ==
    \A i \in CallIds :
        Succeeded(i) /\ ~IsReport(i) =>
            /\ Record(i).incident_datetime = None
            /\ Record(i).complaint_datetime = None
            /\ Record(i).date_time = None
            /\ Score(i) <= 8800

C28_Witness ==
    \E i \in CallIds :
        /\ Succeeded(i)
        /\ calls[i].file.name = "dated.xlsx"
        /\ "date_time" \in DOMAIN calls[i].file.rows[1]
        /\ Record(i).date_time = None
        /\ Score(i) = 8800

====
